---- MODULE Spec2Model ----
(***************************************************************************)
(* pyppl: the expression semantics engine (src/pyppl/ast.py), its scoped   *)
(* evaluation environment (src/pyppl/environment.py) and the Program       *)
(* entry points.                                                           *)
(*                                                                         *)
(* Nodes are tagged tuples: <<"True">>, <<"False">>, <<"Nil">>,            *)
(* <<"Var", name>>, <<"If", c, t, f>>, <<"Cons", h, t>>, <<"Return", p>>,  *)
(* <<"Flip", "lit", theta>>, <<"Flip", "sym", name>>,                      *)
(* <<"Seq", name, bound, rest>>.  Tuple equality is the structural         *)
(* equality of the frozen dataclasses.                                     *)
(*                                                                         *)
(* Floats are exact rationals <<num, den>> (den > 0, lowest terms).  Every *)
(* number used below is a dyadic rational of small exponent, on which      *)
(* IEEE double arithmetic is exact, so the rational result is the float    *)
(* result.                                                                 *)
(*                                                                         *)
(* A call returns a record [ok, val, err, scopes]: ok = FALSE is a raised  *)
(* exception of class err; scopes is the environment's scope stack when    *)
(* the call exits.                                                         *)
(***************************************************************************)
EXTENDS Integers, Sequences, FiniteSets, TLC

VARIABLES
  scopes,   \* EvalEnv.scopes of the environment under test
  params,   \* the ParamVector of the environment / handed to Program calls
  defns,    \* Program.defns, the dict object itself
  defns0,   \* the contents Program.defns was constructed with
  expr,     \* Program.expr
  last,     \* the last call: its arguments, the state before it, its outcome
  wrapper   \* the PickleLoader or PickleDumper in use and the file behind it

vars == <<scopes, params, defns, defns0, expr, last, wrapper>>

----------------------------------------------------------------------------
(* Bounds *)

\* deepest scope stack the environment actions build
MaxScopes == 3
\* largest k passed to Program.sample
MaxK == 2
\* most top-level calls made on one Program
MaxCalls == 2

----------------------------------------------------------------------------
(* Rational arithmetic standing for float arithmetic *)

RECURSIVE GCD(_, _)
GCD(a, b) == IF b = 0 THEN a ELSE GCD(b, a % b)

Abs(n) == IF n < 0 THEN 0 - n ELSE n

RNorm(n, d) == LET g == GCD(Abs(n), d) IN <<n \div g, d \div g>>

Zero == <<0, 1>>
One == <<1, 1>>
Half == <<1, 2>>

RAdd(a, b) == RNorm(a[1] * b[2] + b[1] * a[2], a[2] * b[2])
RSub(a, b) == RNorm(a[1] * b[2] - b[1] * a[2], a[2] * b[2])
RMul(a, b) == RNorm(a[1] * b[1], a[2] * b[2])
RNeg(a) == <<0 - a[1], a[2]>>
RLess(a, b) == a[1] * b[2] < b[1] * a[2]
RLeq(a, b) == a[1] * b[2] <= b[1] * a[2]

\* float(b) for a Python bool b
FloatOfBool(b) == IF b THEN One ELSE Zero

----------------------------------------------------------------------------
(* Nodes *)

Names == {"x", "y"}
ParamNames == {"p", "q"}

TrueNode == <<"True">>
FalseNode == <<"False">>
NilNode == <<"Nil">>
VariableNode(name) == <<"Var", name>>
IfElseNode(c, t, f) == <<"If", c, t, f>>
ConsNode(h, t) == <<"Cons", h, t>>
ReturnNode(p) == <<"Return", p>>
FlipLit(theta) == <<"Flip", "lit", theta>>
FlipSym(name) == <<"Flip", "sym", name>>
SequenceNode(x, bound, rest) == <<"Seq", x, bound, rest>>

Tag(n) == n[1]

\* boolean(val)
boolean(b) == IF b THEN TrueNode ELSE FalseNode

----------------------------------------------------------------------------
(* Call results *)

NoVal == <<>>

\* the exceptions the engine raises
AlreadyBound == "ValueError: name already bound in local scope"
NotBound == "ValueError: name not bound"
NotBoolean == "ValueError: truthiness check on non-boolean value"

Ok(v, s) == [ok |-> TRUE, val |-> v, err |-> "", scopes |-> s]
Raise(e, s) == [ok |-> FALSE, val |-> NoVal, err |-> e, scopes |-> s]

----------------------------------------------------------------------------
(* Scopes: a dict is a function on Names; Unbound marks an absent key *)

Unbound == <<"Unbound">>

EmptyScope == [n \in Names |-> Unbound]

\* name in scope; a name no dict of the model has as a key is in none
InScope(scope, name) == name \in DOMAIN scope /\ scope[name] # Unbound

\* ParamVector as a function on ParamNames; NoParam marks an absent key
NoParam == <<>>

\* BaseEnv.add_scope
add_scope(s) == Ok(NoVal, Append(s, EmptyScope))

\* BaseEnv.remove_scope: list.pop() raises IndexError on an empty list
remove_scope(s) ==
  IF Len(s) = 0 THEN Raise("IndexError", s)
  ELSE Ok(NoVal, SubSeq(s, 1, Len(s) - 1))

\* a plausible slip: the guard of add_binding dropped, the store overwrites
add_binding_overwrite(s, name, val) ==
  IF Len(s) = 0 THEN Raise("IndexError", s)
  ELSE Ok(NoVal, [s EXCEPT ![Len(s)][name] = val])

\* add_binding opening a scope when the environment has none
add_binding_autoscope(s, name, val) ==
  IF Len(s) = 0 THEN Ok(NoVal, <<[EmptyScope EXCEPT ![name] = val]>>)
  ELSE IF InScope(s[Len(s)], name) THEN Raise(AlreadyBound, s)
  ELSE Ok(NoVal, [s EXCEPT ![Len(s)][name] = val])

\* EvalEnv.add_binding
add_binding(s, name, val) ==
  IF Len(s) = 0 THEN Raise("IndexError", s)
  ELSE IF InScope(s[Len(s)], name) THEN Raise(AlreadyBound, s)
  ELSE Ok(NoVal, [s EXCEPT ![Len(s)][name] = val])

\* the loop of EvalEnv.get_binding over reversed(self.scopes), from index i
RECURSIVE get_binding_from(_, _, _)
get_binding_from(s, name, i) ==
  IF i = 0 THEN Raise(NotBound, s)
  ELSE IF InScope(s[i], name) THEN Ok(s[i][name], s)
  ELSE get_binding_from(s, name, i - 1)

\* a plausible slip: the scopes searched outermost first (no reversed())
RECURSIVE get_binding_forward(_, _, _)
get_binding_forward(s, name, i) ==
  IF i > Len(s) THEN Raise(NotBound, s)
  ELSE IF InScope(s[i], name) THEN Ok(s[i][name], s)
  ELSE get_binding_forward(s, name, i + 1)

get_binding_outer_first(s, name) == get_binding_forward(s, name, 1)

\* EvalEnv.get_binding
get_binding(s, name) == get_binding_from(s, name, Len(s))

\* EvalEnv.get_param: self.params[name], KeyError when absent
get_param(pv, name, s) ==
  IF pv[name] = NoParam THEN Raise("KeyError", s) ELSE Ok(pv[name], s)

----------------------------------------------------------------------------
(* Pure-value semantics *)

\* isinstance(n, EffectfulNode): such a node defines no __bool__ and is truthy
IsEffectful(n) == Tag(n) \in {"Return", "Flip", "Seq"}

RECURSIVE eval(_, _)
\* a plausible slip: both branches of a conditional evaluated before the choice
eval_eager(n, env) ==
  CASE Tag(n) = "Var" -> get_binding(env.scopes, n[2])
    [] Tag(n) = "If" ->
         LET c == eval(n[2], env)
             t == eval(n[3], env)
             f == eval(n[4], env)
         IN IF ~c.ok THEN c
            ELSE IF ~t.ok THEN t
            ELSE IF ~f.ok THEN f
            ELSE IF c.val = TrueNode THEN t
            ELSE IF c.val = FalseNode THEN f
            ELSE IF IsEffectful(c.val) THEN t
            ELSE Raise(NotBoolean, env.scopes)
    [] Tag(n) = "Cons" ->
         LET h == eval(n[2], env) IN
         IF ~h.ok THEN h
         ELSE LET t == eval(n[3], env) IN
              IF ~t.ok THEN t
              ELSE IF IsEffectful(h.val) \/ IsEffectful(t.val)
                   THEN Raise("TypeError", env.scopes)
                   ELSE Ok(ConsNode(h.val, t.val), env.scopes)
    [] IsEffectful(n) -> Raise("AttributeError", env.scopes)
    [] OTHER -> Ok(n, env.scopes)

\* PureNode.eval and its overrides; env is [scopes, params]. An effectful
\* node has no eval method
eval(n, env) ==
  CASE Tag(n) = "Var" -> get_binding(env.scopes, n[2])
    [] Tag(n) = "If" ->
         LET c == eval(n[2], env) IN
         IF ~c.ok THEN c
         ELSE IF c.val = TrueNode THEN eval(n[3], env)
         ELSE IF c.val = FalseNode THEN eval(n[4], env)
         ELSE IF IsEffectful(c.val) THEN eval(n[3], env)
         ELSE Raise(NotBoolean, env.scopes)
    [] Tag(n) = "Cons" ->
         LET h == eval(n[2], env) IN
         IF ~h.ok THEN h
         ELSE LET t == eval(n[3], env) IN
              IF ~t.ok THEN t
              ELSE IF IsEffectful(h.val) \/ IsEffectful(t.val)
                   THEN Raise("TypeError", env.scopes)
                   ELSE Ok(ConsNode(h.val, t.val), env.scopes)
    [] IsEffectful(n) -> Raise("AttributeError", env.scopes)
    [] OTHER -> Ok(n, env.scopes)

\* PureNode.infer: float(self.eval(env) == val.eval(env))
PureNode_infer(n, env, val) ==
  LET a == eval(n, env) IN
  IF ~a.ok THEN a
  ELSE LET b == eval(val, env) IN
       IF ~b.ok THEN b
       ELSE Ok(FloatOfBool(a.val = b.val), env.scopes)

----------------------------------------------------------------------------
(* Effectful-node semantics *)

WithScopes(env, s) == [env EXCEPT !.scopes = s]

\* the iteration order of a Python set is not specified; the loops below
\* take the elements in the order Pick gives
Pick(S) == CHOOSE v \in S : TRUE

\* a plausible slip: add_binding called before add_scope, so the binding
\* lands in the current scope
local_binding_enter_bindFirst(s, name, val) ==
  LET b == add_binding(s, name, val) IN
  IF b.ok THEN add_scope(b.scopes) ELSE b

\* EvalEnv.local_binding up to the yield: add_scope, then add_binding
local_binding_enter(s, name, val) ==
  add_binding(add_scope(s).scopes, name, val)

\* a plausible slip: no try/finally, the scope is popped on normal exit only
local_binding_exit_noFinally(body) ==
  IF body.ok THEN remove_scope(body.scopes) ELSE Ok(NoVal, body.scopes)

\* EvalEnv.local_binding from the yield on: the finally clause runs
\* remove_scope whether the body returned or raised
local_binding_exit(body) == remove_scope(body.scopes)

\* the outcome of a with-block whose body ended as body: the body's result
\* (or exception) with the scope stack left by the finally clause
WithExit(body) ==
  LET x == local_binding_exit(body) IN
  IF ~x.ok THEN x ELSE [body EXCEPT !.scopes = x.scopes]

\* FlipNode.get_theta
get_theta(n, env) ==
  IF n[2] = "sym" THEN get_param(env.params, n[3], env.scopes)
  ELSE Ok(n[3], env.scopes)

\* ReturnNode.possible_vals
ReturnNode_possible_vals(n, env) ==
  LET v == eval(n[2], env) IN IF ~v.ok THEN v ELSE Ok({v.val}, env.scopes)

\* possible_vals of a Flip without False
FlipNode_possible_vals_true(n, env) == Ok({TrueNode}, env.scopes)

\* FlipNode.possible_vals
FlipNode_possible_vals(n, env) == Ok({TrueNode, FalseNode}, env.scopes)

\* ReturnNode.infer
ReturnNode_infer(n, env, val) == PureNode_infer(n[2], env, val)

\* a plausible slip: the two outcomes of the coin exchanged
FlipNode_infer_swapped(n, env, val) ==
  LET v == eval(val, env) IN
  IF ~v.ok THEN v
  ELSE IF v.val = FalseNode THEN get_theta(n, env)
  ELSE IF v.val = TrueNode THEN
         LET t == get_theta(n, env) IN
         IF ~t.ok THEN t ELSE Ok(RSub(One, t.val), env.scopes)
  ELSE Ok(Zero, env.scopes)

\* FlipNode.infer
FlipNode_infer(n, env, val) ==
  LET v == eval(val, env) IN
  IF ~v.ok THEN v
  ELSE IF v.val = TrueNode THEN get_theta(n, env)
  ELSE IF v.val = FalseNode THEN
         LET t == get_theta(n, env) IN
         IF ~t.ok THEN t ELSE Ok(RSub(One, t.val), env.scopes)
  ELSE Ok(Zero, env.scopes)

\* EffectfulNode.deriv, inherited by ReturnNode
ReturnNode_deriv(n, env, param, val) == Ok(Zero, env.scopes)

\* a plausible slip: the sign of the False outcome dropped
FlipNode_deriv_unsigned(n, env, param, val) ==
  IF n[2] = "lit" \/ n[3] # param THEN Ok(Zero, env.scopes)
  ELSE LET v == eval(val, env) IN
       IF ~v.ok THEN v
       ELSE IF v.val = TrueNode THEN Ok(One, env.scopes)
       ELSE IF v.val = FalseNode THEN Ok(One, env.scopes)
       ELSE Ok(Zero, env.scopes)

\* FlipNode.deriv
FlipNode_deriv(n, env, param, val) ==
  IF n[2] = "lit" \/ n[3] # param THEN Ok(Zero, env.scopes)
  ELSE LET v == eval(val, env) IN
       IF ~v.ok THEN v
       ELSE IF v.val = TrueNode THEN Ok(One, env.scopes)
       ELSE IF v.val = FalseNode THEN Ok(RNeg(One), env.scopes)
       ELSE Ok(Zero, env.scopes)

RECURSIVE possible_vals(_, _)
RECURSIVE infer(_, _, _)
RECURSIVE deriv(_, _, _, _)
RECURSIVE SeqPossibleValsLoop(_, _, _, _)
RECURSIVE SeqInferLoop(_, _, _, _, _)
RECURSIVE SeqDerivLoop(_, _, _, _, _, _)

\* a plausible slip: poss assigned in each iteration, not accumulated
SeqPossibleValsLoop_assign(n, todo, env, poss) ==
  IF todo = {} THEN Ok(poss, env.scopes)
  ELSE LET v == Pick(todo)
           entered == local_binding_enter(env.scopes, n[2], v)
           body == IF ~entered.ok THEN entered
                   ELSE possible_vals(n[4], WithScopes(env, entered.scopes))
           done == WithExit(body)
       IN IF ~done.ok THEN done
          ELSE SeqPossibleValsLoop(n, todo \ {v}, WithScopes(env, done.scopes),
                                   done.val)

\* the for loop of SequenceNode.possible_vals over the values in todo
SeqPossibleValsLoop(n, todo, env, poss) ==
  IF todo = {} THEN Ok(poss, env.scopes)
  ELSE LET v == Pick(todo)
           entered == local_binding_enter(env.scopes, n[2], v)
           body == IF ~entered.ok THEN entered
                   ELSE possible_vals(n[4], WithScopes(env, entered.scopes))
           done == WithExit(body)
       IN IF ~done.ok THEN done
          ELSE SeqPossibleValsLoop(n, todo \ {v}, WithScopes(env, done.scopes),
                                   poss \cup done.val)

\* SequenceNode.possible_vals
SequenceNode_possible_vals(n, env) ==
  LET pv == possible_vals(n[3], env) IN
  IF ~pv.ok THEN pv
  ELSE SeqPossibleValsLoop(n, pv.val, WithScopes(env, pv.scopes), {})

\* the body of the with-block of SequenceNode.infer for one poss_val
SeqInferBody(n, env, val, poss_val, prob) ==
  LET e1 == infer(n[3], env, poss_val) IN
  IF ~e1.ok THEN e1
  ELSE LET e2 == infer(n[4], WithScopes(env, e1.scopes), val) IN
       IF ~e2.ok THEN e2
       ELSE Ok(RAdd(prob, RMul(e1.val, e2.val)), e2.scopes)

\* the for loop of SequenceNode.infer over the values in todo
SeqInferLoop(n, todo, env, val, prob) ==
  IF todo = {} THEN Ok(prob, env.scopes)
  ELSE LET v == Pick(todo)
           entered == local_binding_enter(env.scopes, n[2], v)
           body == IF ~entered.ok THEN entered
                   ELSE SeqInferBody(n, WithScopes(env, entered.scopes), val, v, prob)
           done == WithExit(body)
       IN IF ~done.ok THEN done
          ELSE SeqInferLoop(n, todo \ {v}, WithScopes(env, done.scopes), val, done.val)

\* SequenceNode.infer
SequenceNode_infer(n, env, val) ==
  LET pv == possible_vals(n[3], env) IN
  IF ~pv.ok THEN pv
  ELSE SeqInferLoop(n, pv.val, WithScopes(env, pv.scopes), val, Zero)

SeqDerivBody3(d2, e2) ==
  IF ~e2.ok THEN e2 ELSE Ok(<<d2.val, e2.val>>, e2.scopes)

SeqDerivBody2(n, env, val, d2) ==
  IF ~d2.ok THEN d2
  ELSE SeqDerivBody3(d2, infer(n[4], WithScopes(env, d2.scopes), val))

\* the with-block of SequenceNode.deriv: <<del_e2, e2>>
SeqDerivBody(n, env, param, val) ==
  SeqDerivBody2(n, env, val, deriv(n[4], env, param, val))

\* a plausible slip: the product rule with its factors paired wrongly
SeqDerivTail3_mispaired(d1, e1, pair, acc) ==
  IF ~e1.ok THEN e1
  ELSE Ok(RAdd(acc, RAdd(RMul(d1.val, pair[1]), RMul(e1.val, pair[2]))), e1.scopes)

SeqDerivTail3(d1, e1, pair, acc) ==
  IF ~e1.ok THEN e1
  ELSE Ok(RAdd(acc, RAdd(RMul(d1.val, pair[2]), RMul(e1.val, pair[1]))), e1.scopes)

SeqDerivTail2(n, env, poss_val, pair, acc, d1) ==
  IF ~d1.ok THEN d1
  ELSE SeqDerivTail3(d1, infer(n[3], WithScopes(env, d1.scopes), poss_val), pair, acc)

\* the statements of SequenceNode.deriv after the with-block
SeqDerivTail(n, env, param, poss_val, pair, acc) ==
  SeqDerivTail2(n, env, poss_val, pair, acc, deriv(n[3], env, param, poss_val))

SeqDerivNext(n, todo, env, param, val, v, tail) ==
  IF ~tail.ok THEN tail
  ELSE SeqDerivLoop(n, todo \ {v}, WithScopes(env, tail.scopes), param, val, tail.val)

SeqDerivAfterWith(n, todo, env, param, val, acc, v, done) ==
  IF ~done.ok THEN done
  ELSE SeqDerivNext(n, todo, env, param, val, v,
                    SeqDerivTail(n, WithScopes(env, done.scopes), param, v, done.val, acc))

SeqDerivWith(n, env, param, val, entered) ==
  WithExit(IF ~entered.ok THEN entered
           ELSE SeqDerivBody(n, WithScopes(env, entered.scopes), param, val))

SeqDerivIter(n, todo, env, param, val, acc, v) ==
  SeqDerivAfterWith(n, todo, env, param, val, acc, v,
                    SeqDerivWith(n, env, param, val, local_binding_enter(env.scopes, n[2], v)))

\* the for loop of SequenceNode.deriv over the values in todo
SeqDerivLoop(n, todo, env, param, val, acc) ==
  IF todo = {} THEN Ok(acc, env.scopes)
  ELSE SeqDerivIter(n, todo, env, param, val, acc, Pick(todo))

SeqDerivStart(n, env, param, val, pv) ==
  IF ~pv.ok THEN pv
  ELSE SeqDerivLoop(n, pv.val, WithScopes(env, pv.scopes), param, val, Zero)

\* SequenceNode.deriv
SequenceNode_deriv(n, env, param, val) ==
  SeqDerivStart(n, env, param, val, possible_vals(n[3], env))

\* possible_vals, dispatched on the node class
possible_vals(n, env) ==
  CASE Tag(n) = "Return" -> ReturnNode_possible_vals(n, env)
    [] Tag(n) = "Flip" -> FlipNode_possible_vals(n, env)
    [] Tag(n) = "Seq" -> SequenceNode_possible_vals(n, env)

\* infer, dispatched on the node class
infer(n, env, val) ==
  CASE Tag(n) = "Return" -> ReturnNode_infer(n, env, val)
    [] Tag(n) = "Flip" -> FlipNode_infer(n, env, val)
    [] Tag(n) = "Seq" -> SequenceNode_infer(n, env, val)
    [] OTHER -> PureNode_infer(n, env, val)

\* deriv, dispatched on the node class
deriv(n, env, param, val) ==
  CASE Tag(n) = "Return" -> ReturnNode_deriv(n, env, param, val)
    [] Tag(n) = "Flip" -> FlipNode_deriv(n, env, param, val)
    [] Tag(n) = "Seq" -> SequenceNode_deriv(n, env, param, val)

RECURSIVE node_params(_)
\* a plausible slip: the names of the bound expression only
node_params_bound_only(n) ==
  CASE Tag(n) = "Flip" -> IF n[2] = "sym" THEN {n[3]} ELSE {}
    [] Tag(n) = "Seq" -> node_params(n[3])
    [] OTHER -> {}

\* ExpressionNode.params and its overrides
node_params(n) ==
  CASE Tag(n) = "Flip" -> IF n[2] = "sym" THEN {n[3]} ELSE {}
    [] Tag(n) = "Seq" -> node_params(n[3]) \cup node_params(n[4])
    [] OTHER -> {}

\* the dict comprehension of gradient over the names in todo
RECURSIVE GradientLoop(_, _, _, _, _)
GradientLoop(e, env, val, todo, acc) ==
  IF todo = {} THEN Ok(acc, env.scopes)
  ELSE LET p == Pick(todo)
           r == deriv(e, env, p, val)
       IN IF ~r.ok THEN r
          ELSE GradientLoop(e, WithScopes(env, r.scopes), val, todo \ {p},
                            [acc EXCEPT ![p] = r.val])

\* EffectfulNode.gradient
EffectfulNode_gradient(n, env, val) ==
  GradientLoop(n, env, val, node_params(n), [p \in ParamNames |-> NoParam])

----------------------------------------------------------------------------
(* Sampling: draws is the sequence of values random.random() will return *)

OkD(v, s, d) == [ok |-> TRUE, val |-> v, err |-> "", scopes |-> s, draws |-> d]
RaiseD(e, s, d) == [ok |-> FALSE, val |-> NoVal, err |-> e, scopes |-> s, draws |-> d]

\* ReturnNode.sample
ReturnNode_sample(n, env, draws) ==
  LET v == eval(n[2], env) IN
  IF ~v.ok THEN RaiseD(v.err, env.scopes, draws) ELSE OkD(v.val, env.scopes, draws)

\* FlipNode.sample comparing with <= in place of <
FlipNode_sample_leq(n, env, draws) ==
  LET d == Head(draws)
      t == get_theta(n, env)
  IN IF ~t.ok THEN RaiseD(t.err, env.scopes, Tail(draws))
     ELSE OkD(boolean(RLeq(d, t.val)), env.scopes, Tail(draws))

\* FlipNode.sample: random.random() is called before get_theta
FlipNode_sample(n, env, draws) ==
  LET d == Head(draws)
      t == get_theta(n, env)
  IN IF ~t.ok THEN RaiseD(t.err, env.scopes, Tail(draws))
     ELSE OkD(boolean(RLess(d, t.val)), env.scopes, Tail(draws))

RECURSIVE sample(_, _, _)

\* a plausible slip: sample made to bind like the other traversals, in a
\* scope of its own that is popped when the node returns
SequenceNode_sample_scoped(n, env, draws) ==
  LET b == sample(n[3], env, draws) IN
  IF ~b.ok THEN b
  ELSE LET entered == local_binding_enter(b.scopes, n[2], b.val)
           r == sample(n[4], WithScopes(env, entered.scopes), b.draws)
       IN [r EXCEPT !.scopes = remove_scope(r.scopes).scopes]

\* SequenceNode.sample
SequenceNode_sample(n, env, draws) ==
  LET b == sample(n[3], env, draws) IN
  IF ~b.ok THEN b
  ELSE LET a == add_binding(b.scopes, n[2], b.val) IN
       IF ~a.ok THEN RaiseD(a.err, a.scopes, b.draws)
       ELSE sample(n[4], WithScopes(env, a.scopes), b.draws)

\* sample, dispatched on the node class
sample(n, env, draws) ==
  CASE Tag(n) = "Return" -> ReturnNode_sample(n, env, draws)
    [] Tag(n) = "Flip" -> FlipNode_sample(n, env, draws)
    [] Tag(n) = "Seq" -> SequenceNode_sample(n, env, draws)

\* the number of FlipNodes in n: no traversal calls random.random() more often
RECURSIVE NumFlips(_)
NumFlips(n) ==
  CASE Tag(n) = "Flip" -> 1
    [] Tag(n) = "Seq" -> NumFlips(n[3]) + NumFlips(n[4])
    [] OTHER -> 0

----------------------------------------------------------------------------
(* The inputs the actions draw from *)

X == VariableNode("x")
Y == VariableNode("y")
TNil == ConsNode(TrueNode, NilNode)
NotX == IfElseNode(X, FalseNode, TrueNode)

Atoms == {TrueNode, FalseNode, NilNode, X, Y}

Ifs ==
  {NotX, IfElseNode(X, Y, FalseNode), IfElseNode(Y, X, TrueNode),
   IfElseNode(X, NilNode, TNil), IfElseNode(NilNode, TrueNode, FalseNode)}

Pures == Atoms \cup Ifs \cup {TNil, ConsNode(X, NilNode)}

\* random.random() returns a float in [0, 1)
DrawSet == {Zero, Half}

LitThetas == {Zero, Half, One}

Flips == {FlipLit(t) : t \in LitThetas} \cup {FlipSym(p) : p \in ParamNames}

Eff0 == {ReturnNode(p) : p \in Pures} \cup Flips

Bounds1 ==
  {FlipLit(Half), FlipSym("p"), FlipSym("q"), ReturnNode(NilNode), ReturnNode(X),
   ReturnNode(NotX)}

Rests1 ==
  {ReturnNode(p) : p \in {X, Y, NotX, IfElseNode(X, Y, FalseNode),
                          IfElseNode(X, NilNode, TNil)}}
  \cup {FlipLit(Half), FlipSym("p")}

Eff1 == {SequenceNode(a, b, r) : a \in Names, b \in Bounds1, r \in Rests1}

Inner2 ==
  {SequenceNode(a, b, ReturnNode(p)) :
     a \in Names, b \in {FlipLit(Half), FlipSym("q"), ReturnNode(X)},
     p \in {X, IfElseNode(X, Y, FalseNode)}}

Eff2 ==
  {SequenceNode(a, b, r) :
     a \in Names, b \in {FlipSym("p"), ReturnNode(NotX)}, r \in Inner2}

Eff2b ==
  {SequenceNode(a, SequenceNode(c, FlipSym("p"), ReturnNode(p)), ReturnNode(r)) :
     a \in Names, c \in Names, p \in {X, IfElseNode(Y, FalseNode, TrueNode)},
     r \in {X, IfElseNode(X, Y, FalseNode)}}

Nodes == Eff0 \cup Eff1 \cup Eff2 \cup Eff2b

Targets == {TrueNode, FalseNode, NilNode, TNil, X}

Scope(vx, vy) == [n \in Names |-> IF n = "x" THEN vx ELSE vy]

\* the definitions a Program is built with
DefnsSet ==
  {EmptyScope, Scope(TrueNode, Unbound), Scope(FalseNode, TrueNode),
   Scope(NilNode, FalseNode)}

PV(vp, vq) == [n \in ParamNames |-> IF n = "p" THEN vp ELSE vq]

\* the parameter vectors an environment is built with
ParamSet == {PV(Half, NoParam), PV(<<1, 4>>, Half), PV(<<3, 2>>, <<-1, 2>>)}

Env == [scopes |-> scopes, params |-> params]

----------------------------------------------------------------------------
(* Node-level calls on one environment: EvalEnv(params, initial_vals) *)

Idle ==
  [op |-> "none", node |-> NoVal, target |-> NoVal, param |-> "", name |-> "",
   draws |-> <<>>, k |-> 0, calls |-> 0, pre |-> <<>>, self |-> NoVal,
   other |-> NoVal, scalar |-> NoVal, built |-> NoVal, order |-> <<>>, data |-> <<>>,
   res |-> Ok(NoVal, <<>>)]

\* no PickleLoader or PickleDumper constructed
NoWrapper == [kind |-> "none"]

Called(op, n, t, p, d, r) ==
  [Idle EXCEPT !.op = op, !.node = n, !.target = t, !.param = p, !.draws = d,
               !.pre = scopes, !.res = r]

\* BaseEnv.__post_init__: initial_vals becomes the only scope
Init ==
  /\ params \in ParamSet
  /\ scopes \in {<<d>> : d \in DefnsSet}
  /\ defns = EmptyScope
  /\ defns0 = EmptyScope
  /\ expr = ReturnNode(NilNode)
  /\ last = Idle
  /\ wrapper = NoWrapper

CallPossibleVals(n) ==
  /\ last.op = "none"
  /\ LET r == possible_vals(n, Env) IN
       /\ last' = Called("possible_vals", n, NoVal, "", <<>>, r)
       /\ scopes' = r.scopes
  /\ UNCHANGED <<wrapper, params, defns, defns0, expr>>

CallInfer(n, t) ==
  /\ last.op = "none"
  /\ LET r == infer(n, Env, t) IN
       /\ last' = Called("infer", n, t, "", <<>>, r)
       /\ scopes' = r.scopes
  /\ UNCHANGED <<wrapper, params, defns, defns0, expr>>

CallDeriv(n, p, t) ==
  /\ last.op = "none"
  /\ LET r == deriv(n, Env, p, t) IN
       /\ last' = Called("deriv", n, t, p, <<>>, r)
       /\ scopes' = r.scopes
  /\ UNCHANGED <<wrapper, params, defns, defns0, expr>>

CallSample(n, d) ==
  /\ last.op = "none"
  /\ LET r == sample(n, Env, d) IN
       /\ last' = Called("sample", n, NoVal, "", d, r)
       /\ scopes' = r.scopes
  /\ UNCHANGED <<wrapper, params, defns, defns0, expr>>

\* the caller takes the result; the environment stays as the call left it
Consume ==
  /\ last.op # "none"
  /\ last' = Idle
  /\ UNCHANGED <<wrapper, scopes, params, defns, defns0, expr>>

Next ==
  \/ \E n \in Nodes : CallPossibleVals(n)
  \/ \E n \in Nodes, t \in Targets : CallInfer(n, t)
  \/ \E n \in Nodes, p \in ParamNames, t \in Targets : CallDeriv(n, p, t)
  \/ Consume

Spec == Init /\ [][Next]_vars

\* sample calls, one after the other, on one environment
NextSample ==
  \/ \E n \in Nodes : \E d \in [1..NumFlips(n) -> DrawSet] : CallSample(n, d)
  \/ Consume

SpecSample == Init /\ [][NextSample]_vars

\* the four traversals on one environment
SpecAll == Init /\ [][Next \/ NextSample]_vars

----------------------------------------------------------------------------
(* The environment operations on EvalEnv(params=ParamVector()) *)

BindVals == {TrueNode, FalseNode}

EnvCalled(op, name, val, r) ==
  [Idle EXCEPT !.op = op, !.name = name, !.target = val, !.pre = scopes, !.res = r]

\* BaseEnv.__post_init__ with initial_vals None: one scope from scope_factory
InitEnv ==
  /\ scopes = <<EmptyScope>>
  /\ params = PV(NoParam, NoParam)
  /\ defns = EmptyScope
  /\ defns0 = EmptyScope
  /\ expr = ReturnNode(NilNode)
  /\ last = Idle
  /\ wrapper = NoWrapper

DoAddScope ==
  /\ Len(scopes) < MaxScopes
  /\ LET r == add_scope(scopes) IN
       /\ last' = EnvCalled("add_scope", "", NoVal, r)
       /\ scopes' = r.scopes
  /\ UNCHANGED <<wrapper, params, defns, defns0, expr>>

DoRemoveScope ==
  /\ LET r == remove_scope(scopes) IN
       /\ last' = EnvCalled("remove_scope", "", NoVal, r)
       /\ scopes' = r.scopes
  /\ UNCHANGED <<wrapper, params, defns, defns0, expr>>

DoAddBinding(name, val) ==
  /\ LET r == add_binding(scopes, name, val) IN
       /\ last' = EnvCalled("add_binding", name, val, r)
       /\ scopes' = r.scopes
  /\ UNCHANGED <<wrapper, params, defns, defns0, expr>>

DoGetBinding(name) ==
  /\ LET r == get_binding(scopes, name) IN
       /\ last' = EnvCalled("get_binding", name, NoVal, r)
       /\ scopes' = r.scopes
  /\ UNCHANGED <<wrapper, params, defns, defns0, expr>>

NextEnv ==
  \/ DoAddScope
  \/ DoRemoveScope
  \/ \E name \in Names, val \in BindVals : DoAddBinding(name, val)
  \/ \E name \in Names : DoGetBinding(name)

SpecEnv == InitEnv /\ [][NextEnv]_vars

----------------------------------------------------------------------------
(* Program: defns and a root expression *)

\* Program.params
Program_params(d, e) ==
  node_params(e) \cup UNION {node_params(d[n]) : n \in {m \in Names : InScope(d, m)}}

\* EvalEnv(params=params, initial_vals=self.defns): __post_init__ appends the
\* dict it is given, so the base scope of the environment is the defns object
Program_env(d, pv) == [scopes |-> <<d>>, params |-> pv]

\* Program.infer; the scopes of the result hold defns as the call leaves it
Program_infer(d, e, pv, val) == infer(e, Program_env(d, pv), val)

\* Program.gradient
Program_gradient(d, e, pv, val) ==
  GradientLoop(e, Program_env(d, pv), val, Program_params(d, e),
               PV(NoParam, NoParam))

\* what the attribute would be if ParamVector defined it: the key set
ParamVector_param_names_keys(pv) ==
  Ok({n \in ParamNames : pv[n] # NoParam}, <<>>)

\* params.param_names on a ParamVector: the class (a dict subclass) defines
\* no such attribute, the lookup raises AttributeError
ParamVector_param_names(pv) == Raise("AttributeError", <<>>)

\* the for loop of Program.sample: draw i of k, each in EvalEnv(params,
\* initial_vals=self.defns); d is the defns dict as the draws so far left it
RECURSIVE SampleLoop(_, _, _, _, _, _)
SampleLoop(d, e, pv, i, draws, samples) ==
  IF i = 0 THEN OkD(samples, <<d>>, draws)
  ELSE LET r == sample(e, Program_env(d, pv), draws) IN
       IF ~r.ok THEN r
       ELSE SampleLoop(r.scopes[1], e, pv, i - 1, r.draws, Append(samples, r.val))

\* Program.sample
Program_sample(d, e, pv, k, draws) ==
  LET names == ParamVector_param_names(pv) IN
  IF ~names.ok THEN RaiseD(names.err, <<d>>, draws)
  ELSE IF node_params(e) \ names.val # {}
       THEN RaiseD("UndefinedParamError", <<d>>, draws)
       ELSE SampleLoop(d, e, pv, k, draws, <<>>)

ProgExprs ==
  {FlipSym("p"), ReturnNode(X), ReturnNode(IfElseNode(X, Y, FalseNode)),
   SequenceNode("y", FlipSym("q"), ReturnNode(Y))}
  \cup {SequenceNode(a, b, ReturnNode(r)) :
          a \in Names, b \in {FlipLit(Half), FlipSym("p"), ReturnNode(NotX)},
          r \in {X, IfElseNode(X, NilNode, TNil)}}
  \cup {SequenceNode("x", FlipSym("p"),
                     SequenceNode(a, FlipSym("q"),
                                  ReturnNode(IfElseNode(X, Y, FalseNode)))) :
          a \in Names}

\* the definitions of a program as the parser builds them: any expression,
\* pure or effectful, stored as written
ProgDefns == DefnsSet \cup {Scope(TrueNode, FlipSym("q")), Scope(Y, TrueNode)}

\* the pure nodes evaluated in a program's environment
ProgPures ==
  Pures \cup {IfElseNode(X, TNil, Y),
              IfElseNode(X, FalseNode, IfElseNode(NilNode, TrueNode, FalseNode)),
              IfElseNode(TNil, TrueNode, FalseNode)}

ProgCalled(op, t, k, d, r) ==
  [Idle EXCEPT !.op = op, !.target = t, !.k = k, !.draws = d, !.pre = <<defns>>,
               !.calls = last.calls + 1, !.res = r]

\* Program(defns, expr); params is the vector the caller passes to each call
InitProg ==
  /\ defns \in DefnsSet
  /\ defns0 = defns
  /\ expr \in ProgExprs
  /\ params \in ParamSet
  /\ scopes = <<>>
  /\ last = Idle
  /\ wrapper = NoWrapper

ProgramInfer(t) ==
  /\ last.calls < MaxCalls
  /\ LET r == Program_infer(defns, expr, params, t) IN
       /\ last' = ProgCalled("Program.infer", t, 0, <<>>, r)
       /\ defns' = r.scopes[1]
  /\ UNCHANGED <<wrapper, scopes, params, defns0, expr>>

ProgramGradient(t) ==
  /\ last.calls < MaxCalls
  /\ LET r == Program_gradient(defns, expr, params, t) IN
       /\ last' = ProgCalled("Program.gradient", t, 0, <<>>, r)
       /\ defns' = r.scopes[1]
  /\ UNCHANGED <<wrapper, scopes, params, defns0, expr>>

ProgramSample(k, d) ==
  /\ last.calls < MaxCalls
  /\ LET r == Program_sample(defns, expr, params, k, d) IN
       /\ last' = ProgCalled("Program.sample", NoVal, k, d, r)
       /\ defns' = r.scopes[1]
  /\ UNCHANGED <<wrapper, scopes, params, defns0, expr>>

\* prog.expr.gradient(prog.env(params), t)
ExprGradient(t) ==
  /\ last.calls < MaxCalls
  /\ LET r == EffectfulNode_gradient(expr, Program_env(defns, params), t) IN
       /\ last' = ProgCalled("gradient", t, 0, <<>>, r)
       /\ defns' = r.scopes[1]
  /\ UNCHANGED <<wrapper, scopes, params, defns0, expr>>

\* p.eval(prog.env(params)) for a pure node p
EnvEval(p) ==
  /\ last.calls < MaxCalls
  /\ LET r == eval(p, Program_env(defns, params)) IN
       /\ last' = [ProgCalled("eval", NoVal, 0, <<>>, r) EXCEPT !.node = p]
       /\ defns' = r.scopes[1]
  /\ UNCHANGED <<wrapper, scopes, params, defns0, expr>>

NextProg ==
  \/ \E t \in Targets : ProgramInfer(t)
  \/ \E t \in Targets : ProgramGradient(t)
  \/ \E k \in 1..MaxK : \E d \in [1..(k * NumFlips(expr)) -> DrawSet] :
       ProgramSample(k, d)

SpecProg == InitProg /\ [][NextProg]_vars

\* gradients and pure evaluation in the environments a Program builds
NextGrad ==
  \/ \E t \in Targets : ProgramGradient(t)
  \/ \E t \in Targets : ExprGradient(t)
  \/ \E p \in ProgPures : EnvEval(p)

\* Program(defns, expr) as the parser builds it
InitGrad ==
  /\ defns \in ProgDefns
  /\ defns0 = defns
  /\ expr \in ProgExprs
  /\ params \in ParamSet
  /\ scopes = <<>>
  /\ last = Idle
  /\ wrapper = NoWrapper

SpecGrad == InitGrad /\ [][NextGrad]_vars

----------------------------------------------------------------------------
(* Name analysis (src/pyppl/analysis.py): NameEnv scopes are sets of names *)

\* check_binding accepting every name
check_binding_any(s, name) == Ok(NoVal, s)

\* NameEnv.check_binding
check_binding(s, name) ==
  IF \E i \in 1..Len(s) : name \in s[i] THEN Ok(NoVal, s)
  ELSE [Raise("UnboundNameError", s) EXCEPT !.val = name]

\* NameEnv.add_name
add_name(s, name) == [s EXCEPT ![Len(s)] = s[Len(s)] \cup {name}]

\* subexpressions with a conditional yielding no else branch
subexpressions_no_else(n) ==
  CASE Tag(n) = "If" -> <<n[2], n[3]>>
    [] Tag(n) = "Cons" -> <<n[2], n[3]>>
    [] Tag(n) = "Return" -> <<n[2]>>
    [] Tag(n) = "Seq" -> <<n[3], n[4]>>
    [] OTHER -> <<>>

\* ExpressionNode.subexpressions and its overrides, in the order yielded
subexpressions(n) ==
  CASE Tag(n) = "If" -> <<n[2], n[3], n[4]>>
    [] Tag(n) = "Cons" -> <<n[2], n[3]>>
    [] Tag(n) = "Return" -> <<n[2]>>
    [] Tag(n) = "Seq" -> <<n[3], n[4]>>
    [] OTHER -> <<>>

RECURSIVE name_analysis_expr(_, _)
RECURSIVE name_analysis_each(_, _)

\* the loop over expr.subexpressions in name_analysis_expr
name_analysis_each(s, es) ==
  IF es = <<>> THEN Ok(NoVal, s)
  ELSE LET r == name_analysis_expr(s, Head(es)) IN
       IF ~r.ok THEN r ELSE name_analysis_each(r.scopes, Tail(es))

\* name_analysis_expr; local_scope pops the scope on every exit
name_analysis_expr(s, e) ==
  CASE Tag(e) = "Var" -> check_binding(s, e[2])
    [] Tag(e) = "Seq" ->
         LET b == name_analysis_expr(s, e[3]) IN
         IF ~b.ok THEN b
         ELSE LET r == name_analysis_expr(add_name(Append(b.scopes, {}), e[2]), e[4])
              IN [r EXCEPT !.scopes = SubSeq(r.scopes, 1, Len(r.scopes) - 1)]
    [] OTHER -> name_analysis_each(s, subexpressions(e))

\* the orders in which prog.defns, a dict, can hold its keys: the order the
\* definitions were inserted in
DefnOrders(d) ==
  LET names == {n \in Names : InScope(d, n)} IN
  {o \in [1..Cardinality(names) -> names] : \A n \in names : \E i \in DOMAIN o : o[i] = n}

\* the loop of name_analysis over prog.defns.values(), in the dict's order
RECURSIVE name_analysis_defns(_, _, _)
name_analysis_defns(s, d, order) ==
  IF order = <<>> THEN Ok(NoVal, s)
  ELSE LET r == name_analysis_expr(s, d[Head(order)])
       IN IF ~r.ok THEN r ELSE name_analysis_defns(r.scopes, d, Tail(order))

\* name_analysis of Program(d, e), d holding its keys in the given order
name_analysis(d, order, e) ==
  LET r == name_analysis_defns(<<{order[i] : i \in DOMAIN order}>>, d, order)
  IN IF ~r.ok THEN r ELSE name_analysis_expr(r.scopes, e)

----------------------------------------------------------------------------
(* Properties *)

\* the environment the last call was made in
PreEnv == [scopes |-> last.pre, params |-> params]

ScopedOps == {"possible_vals", "infer", "deriv"}

\* env[x |-> v]: env with one more scope that binds x to v only
PushBinding(s, x, v) == Append(s, [EmptyScope EXCEPT ![x] = v])

\* sum over v in todo of infer(bound, env, v) * infer(rest, env[x |-> v], val)
RECURSIVE SeqLawSum(_, _, _, _)
SeqLawSum(n, env, val, todo) ==
  IF todo = {} THEN Zero
  ELSE LET v == Pick(todo) IN
       RAdd(RMul(infer(n[3], env, v).val,
                 infer(n[4], WithScopes(env, PushBinding(env.scopes, n[2], v)), val).val),
            SeqLawSum(n, env, val, todo \ {v}))

\* every term of the sum is defined
SeqLawDefined(n, env, val) ==
  LET pv == possible_vals(n[3], env) IN
  /\ pv.ok
  /\ \A v \in pv.val :
       /\ infer(n[3], env, v).ok
       /\ infer(n[4], WithScopes(env, PushBinding(env.scopes, n[2], v)), val).ok

\* C1: infer of Sequence(x, bound, rest) is the sum over v in
\* possible_vals(bound, env) of infer(bound, env, v) * infer(rest, env[x->v],
\* target), the first factor taken in env itself, also when bound refers to
\* an outer variable named like the binder.
SequenceInferLaw ==
  (/\ last.op = "infer"
   /\ Tag(last.node) = "Seq"
   /\ SeqLawDefined(last.node, PreEnv, last.target))
  => /\ last.res.ok
     /\ last.res.val =
          SeqLawSum(last.node, PreEnv, last.target,
                    possible_vals(last.node[3], PreEnv).val)

\* every Flip of n resolves to a theta in [0, 1] under pv
RECURSIVE ThetasInRange(_, _)
ThetasInRange(n, pv) ==
  CASE Tag(n) = "Flip" ->
         IF n[2] = "sym"
         THEN pv[n[3]] # NoParam /\ RLeq(Zero, pv[n[3]]) /\ RLeq(pv[n[3]], One)
         ELSE RLeq(Zero, n[3]) /\ RLeq(n[3], One)
    [] Tag(n) = "Seq" -> ThetasInRange(n[3], pv) /\ ThetasInRange(n[4], pv)
    [] OTHER -> TRUE

\* the names of n resolve and its possible values are booleans only
BooleanSupport(n, env) ==
  LET pv == possible_vals(n, env) IN
  pv.ok /\ pv.val \subseteq {TrueNode, FalseNode}

\* C2: when all names resolve, the possible values are only True and False
\* and every Flip probability is in [0, 1], infer(node, env, True) +
\* infer(node, env, False) = 1.
MassConserved ==
  (/\ last.op = "infer"
   /\ last.target = TrueNode
   /\ BooleanSupport(last.node, PreEnv)
   /\ ThetasInRange(last.node, params))
  => /\ last.res.ok
     /\ LET f == infer(last.node, PreEnv, FalseNode) IN
          f.ok /\ RAdd(last.res.val, f.val) = One

\* C3: after possible_vals, infer or deriv, returned or raised, the scope
\* stack is what it was before the call, in depth and in the contents of
\* every scope.
ScopesRestored ==
  last.op \in ScopedOps => scopes = last.pre

\* a call that raised inside the with-block of a Sequence, one scope pushed
ScopesRestoredWitness ==
  /\ last.op \in ScopedOps
  /\ Tag(last.node) = "Seq"
  /\ ~last.res.ok
  /\ possible_vals(last.node[3], PreEnv).ok
  /\ scopes = last.pre

ProgOps == {"Program.sample", "Program.infer", "Program.gradient"}

\* the outcome the last Program call has on the Program as constructed
FirstCallOutcome ==
  CASE last.op = "Program.infer" ->
         Program_infer(defns0, expr, params, last.target)
    [] last.op = "Program.gradient" ->
         Program_gradient(defns0, expr, params, last.target)
    [] last.op = "Program.sample" ->
         Program_sample(defns0, expr, params, last.k, last.draws)

SampleBindsInCurrentScope ==
  (last.op = "sample" /\ Tag(last.node) = "Seq" /\ last.res.ok) =>
    LET b == sample(last.node[3], PreEnv, last.draws)
        bound == [b.scopes EXCEPT ![Len(b.scopes)][last.node[2]] = b.val]
        r == sample(last.node[4], WithScopes(PreEnv, bound), b.draws)
    IN /\ b.ok
       /\ Len(scopes) = Len(last.pre)
       /\ scopes[Len(scopes)][last.node[2]] = b.val
       /\ r.ok /\ last.res.val = r.val /\ scopes = r.scopes

\* a Sequence over a Flip returned, its binder new to the caller's scope
SampleBindsWitness ==
  /\ last.op = "sample"
  /\ Tag(last.node) = "Seq"
  /\ Tag(last.node[3]) = "Flip"
  /\ last.res.ok
  /\ ~InScope(last.pre[Len(last.pre)], last.node[2])
  /\ scopes[Len(scopes)][last.node[2]] = FalseNode

\* the names bound in some scope of s
BoundNames(s) == {n \in Names : \E i \in 1..Len(s) : InScope(s[i], n)}

\* n holds a Sequence whose binder is in names or is the binder of a
\* Sequence that encloses it
RECURSIVE Shadows(_, _)
Shadows(n, names) ==
  /\ Tag(n) = "Seq"
  /\ \/ n[2] \in names
     \/ Shadows(n[3], names)
     \/ Shadows(n[4], names \cup {n[2]})

\* the variables of n that no enclosing Sequence of n binds
RECURSIVE FreeVars(_)
FreeVars(n) ==
  CASE Tag(n) = "Var" -> {n[2]}
    [] Tag(n) = "If" -> FreeVars(n[2]) \cup FreeVars(n[3]) \cup FreeVars(n[4])
    [] Tag(n) = "Cons" -> FreeVars(n[2]) \cup FreeVars(n[3])
    [] Tag(n) = "Return" -> FreeVars(n[2])
    [] Tag(n) = "Seq" -> FreeVars(n[3]) \cup (FreeVars(n[4]) \ {n[2]})
    [] OTHER -> {}

Traversals == ScopedOps \cup {"sample"}

AddBindingContract ==
  (last.op = "add_binding" /\ Len(last.pre) > 0) =>
    LET top == Len(last.pre) IN
    /\ InScope(last.pre[top], last.name) => (~last.res.ok /\ scopes = last.pre)
    /\ ~InScope(last.pre[top], last.name) => last.res.ok
    /\ last.res.ok =>
         /\ Len(scopes) = top
         /\ \A i \in 1..(top - 1) : scopes[i] = last.pre[i]
         /\ \A n \in Names \ {last.name} : scopes[top][n] = last.pre[top][n]
         /\ scopes[top][last.name] = last.target

\* a rebinding with another value refused under an outer scope
AddBindingWitness ==
  /\ last.op = "add_binding"
  /\ Len(last.pre) >= 2
  /\ ~last.res.ok
  /\ last.res.err = AlreadyBound
  /\ scopes[Len(scopes)][last.name] # last.target

\* the scopes of s that bind name
Binders(s, name) == {i \in 1..Len(s) : InScope(s[i], name)}

Max(S) == CHOOSE i \in S : \A j \in S : j <= i

\* C8: get_binding returns the value of the innermost scope that binds the
\* name and fails with not-bound exactly when no scope binds it.
GetBindingContract ==
  last.op = "get_binding" =>
    IF Binders(scopes, last.name) = {}
    THEN ~last.res.ok /\ last.res.err = NotBound
    ELSE /\ last.res.ok
         /\ last.res.val = scopes[Max(Binders(scopes, last.name))][last.name]

\* a lookup of a name that two scopes bind to different values
GetBindingWitness ==
  /\ last.op = "get_binding"
  /\ last.res.ok
  /\ \E i, j \in Binders(scopes, last.name) :
       i < j /\ scopes[i][last.name] # scopes[j][last.name]

\* the theta a Flip resolves to under pv, NoParam when the name is absent
Theta(n, pv) == IF n[2] = "sym" THEN pv[n[3]] ELSE n[3]

\* C9: for a Flip whose theta resolves in [0, 1], infer is theta for a target
\* that evaluates to True, 1 - theta for False, 0 for any other value.
FlipInferContract ==
  (/\ last.op = "infer"
   /\ Tag(last.node) = "Flip"
   /\ ThetasInRange(last.node, params)
   /\ eval(last.target, PreEnv).ok)
  => /\ last.res.ok
     /\ LET t == eval(last.target, PreEnv).val
            theta == Theta(last.node, params)
        IN last.res.val = (CASE t = TrueNode -> theta
                             [] t = FalseNode -> RSub(One, theta)
                             [] OTHER -> Zero)

\* a named parameter of value 1/4 asked for False
FlipInferWitness ==
  /\ last.op = "infer"
  /\ last.node = FlipSym("p")
  /\ last.target = FalseNode
  /\ last.res.ok
  /\ last.res.val = <<3, 4>>

\* C10: infer never returns a value below 0 or above 1: a Flip whose
\* probability is outside [0, 1] fails at construction or when theta is
\* resolved.
InferInUnitInterval ==
  (last.op = "infer" /\ last.res.ok)
  => RLeq(Zero, last.res.val) /\ RLeq(last.res.val, One)

\* C11: a symbolic Flip whose parameter name is absent from the parameter
\* vector fails in sample, in infer for every target and in deriv; no call
\* returns a number.
UndefinedParamFails ==
  (/\ last.op \in {"sample", "infer", "deriv"}
   /\ Tag(last.node) = "Flip"
   /\ last.node[2] = "sym"
   /\ params[last.node[3]] = NoParam)
  => ~last.res.ok

\* C12: deriv of a Flip with respect to p is 0 when theta is a literal or a
\* name other than p; when theta is the name p it is +1 for a target that
\* evaluates to True, -1 for False, 0 for any other value; deriv of a Return
\* is 0 for every parameter and target.
FlipReturnDerivContract ==
  (last.op = "deriv" /\ Tag(last.node) \in {"Flip", "Return"})
  => IF Tag(last.node) = "Return" \/ last.node[2] = "lit" \/ last.node[3] # last.param
     THEN last.res.ok /\ last.res.val = Zero
     ELSE eval(last.target, PreEnv).ok
          => /\ last.res.ok
             /\ LET t == eval(last.target, PreEnv).val
                IN last.res.val = (CASE t = TrueNode -> One
                                     [] t = FalseNode -> RNeg(One)
                                     [] OTHER -> Zero)

\* the derivative with respect to its own parameter, asked for a variable
\* bound to False
FlipReturnDerivWitness ==
  /\ last.op = "deriv"
  /\ last.node = FlipSym("p")
  /\ last.param = "p"
  /\ last.target = X
  /\ last.res.ok
  /\ last.res.val = RNeg(One)

\* sum over v in todo of deriv(bound, env, p, v) * infer(rest, env[x |-> v], val)
\* + infer(bound, env, v) * deriv(rest, env[x |-> v], p, val)
RECURSIVE SeqDerivLawSum(_, _, _, _, _)
SeqDerivLawSum(n, env, param, val, todo) ==
  IF todo = {} THEN Zero
  ELSE LET v == Pick(todo)
           inner == WithScopes(env, PushBinding(env.scopes, n[2], v))
       IN RAdd(RAdd(RMul(deriv(n[3], env, param, v).val, infer(n[4], inner, val).val),
                    RMul(infer(n[3], env, v).val, deriv(n[4], inner, param, val).val)),
               SeqDerivLawSum(n, env, param, val, todo \ {v}))

\* every term of the sum is defined
SeqDerivLawDefined(n, env, param, val) ==
  LET pv == possible_vals(n[3], env) IN
  /\ pv.ok
  /\ \A v \in pv.val :
       LET inner == WithScopes(env, PushBinding(env.scopes, n[2], v)) IN
       /\ deriv(n[3], env, param, v).ok
       /\ infer(n[3], env, v).ok
       /\ infer(n[4], inner, val).ok
       /\ deriv(n[4], inner, param, val).ok

\* x <- flip p; y <- flip q; return (if x then y else ff): True has
\* probability p * q
ProductProgram ==
  SequenceNode("x", FlipSym("p"),
               SequenceNode("y", FlipSym("q"), ReturnNode(IfElseNode(X, Y, FalseNode))))

----------------------------------------------------------------------------
(* ParamVector arithmetic (src/pyppl/params.py) *)

KeysMismatch == "ValueError: keys in vectors do not match"
NoSuchKey == "ValueError: no such key in vector"

\* 1 / x for a nonzero x
RInv(a) == IF a[1] < 0 THEN <<0 - a[2], 0 - a[1]>> ELSE <<a[2], a[1]>>

\* set(self.keys())
Keys(pv) == {k \in ParamNames : pv[k] # NoParam}

\* an in-place operation that raises: val is self as the call leaves it
RaiseIn(e, self) == [Raise(e, <<>>) EXCEPT !.val = self]

\* a plausible slip: the check accepts a right operand with more keys
ParamVector_check_keys_subset(self, other) ==
  IF ~(Keys(self) \subseteq Keys(other)) THEN Raise(KeysMismatch, <<>>)
  ELSE Ok(NoVal, <<>>)

\* ParamVector._check_keys_match
ParamVector_check_keys_match(self, other) ==
  IF Keys(self) # Keys(other) THEN Raise(KeysMismatch, <<>>)
  ELSE Ok(NoVal, <<>>)

\* a plausible slip: the plain dict store, without the membership test
ParamVector_setitem_dict(self, key, value) ==
  Ok([self EXCEPT ![key] = value], <<>>)

\* ParamVector.__setitem__; val is self after the call
ParamVector_setitem(self, key, value) ==
  IF self[key] = NoParam THEN RaiseIn(NoSuchKey, self)
  ELSE Ok([self EXCEPT ![key] = value], <<>>)

\* ParamVector.__add__: other[k] raises KeyError for a key other lacks
ParamVector_add(self, other) ==
  LET c == ParamVector_check_keys_match(self, other) IN
  IF ~c.ok THEN c
  ELSE IF \E k \in Keys(self) : other[k] = NoParam THEN Raise("KeyError", <<>>)
  ELSE Ok([k \in ParamNames |->
             IF self[k] = NoParam THEN NoParam ELSE RAdd(self[k], other[k])], <<>>)

\* ParamVector.__sub__
ParamVector_sub(self, other) ==
  LET c == ParamVector_check_keys_match(self, other) IN
  IF ~c.ok THEN c
  ELSE IF \E k \in Keys(self) : other[k] = NoParam THEN Raise("KeyError", <<>>)
  ELSE Ok([k \in ParamNames |->
             IF self[k] = NoParam THEN NoParam ELSE RSub(self[k], other[k])], <<>>)

\* the for loop of __iadd__ (sign = One) and __isub__ (sign = -One) over the
\* keys in todo: self[k] = self[k] +/- other[k]
RECURSIVE InPlaceSumLoop(_, _, _, _)
InPlaceSumLoop(self, other, sign, todo) ==
  IF todo = {} THEN Ok(self, <<>>)
  ELSE LET k == Pick(todo) IN
       IF other[k] = NoParam THEN RaiseIn("KeyError", self)
       ELSE LET r == ParamVector_setitem(self, k, RAdd(self[k], RMul(sign, other[k])))
            IN IF ~r.ok THEN r ELSE InPlaceSumLoop(r.val, other, sign, todo \ {k})

\* ParamVector.__iadd__; val is self after the call
ParamVector_iadd(self, other) ==
  LET c == ParamVector_check_keys_match(self, other) IN
  IF ~c.ok THEN RaiseIn(c.err, self)
  ELSE InPlaceSumLoop(self, other, One, Keys(self))

\* ParamVector.__isub__; val is self after the call
ParamVector_isub(self, other) ==
  LET c == ParamVector_check_keys_match(self, other) IN
  IF ~c.ok THEN RaiseIn(c.err, self)
  ELSE InPlaceSumLoop(self, other, RNeg(One), Keys(self))

\* ParamVector.__mul__
ParamVector_mul(self, x) ==
  Ok([k \in ParamNames |-> IF self[k] = NoParam THEN NoParam ELSE RMul(self[k], x)],
     <<>>)

\* the for loop of __imul__ and __itruediv__: self[k] = self[k] * f
RECURSIVE InPlaceScaleLoop(_, _, _)
InPlaceScaleLoop(self, f, todo) ==
  IF todo = {} THEN Ok(self, <<>>)
  ELSE LET k == Pick(todo)
           r == ParamVector_setitem(self, k, RMul(self[k], f))
       IN IF ~r.ok THEN r ELSE InPlaceScaleLoop(r.val, f, todo \ {k})

\* ParamVector.__imul__; val is self after the call
ParamVector_imul(self, x) == InPlaceScaleLoop(self, x, Keys(self))

\* ParamVector.__truediv__
ParamVector_truediv(self, x) ==
  IF x = Zero THEN Raise("ZeroDivisionError", <<>>)
  ELSE ParamVector_mul(self, RInv(x))

\* a plausible slip: the guard dropped, the error left to the first self[k] / x
ParamVector_itruediv_unguarded(self, x) ==
  IF x = Zero
  THEN (IF Keys(self) = {} THEN Ok(self, <<>>) ELSE RaiseIn("ZeroDivisionError", self))
  ELSE InPlaceScaleLoop(self, RInv(x), Keys(self))

\* ParamVector.__itruediv__; val is self after the call
ParamVector_itruediv(self, x) ==
  IF x = Zero THEN RaiseIn("ZeroDivisionError", self)
  ELSE InPlaceScaleLoop(self, RInv(x), Keys(self))

\* ParamVector.__neg__
ParamVector_neg(self) ==
  Ok([k \in ParamNames |-> IF self[k] = NoParam THEN NoParam ELSE RNeg(self[k])],
     <<>>)

\* ParamVector.__rmul__
ParamVector_rmul(self, x) == ParamVector_mul(self, x)

\* the vectors, scalars and item values the operations are applied to
VecSet ==
  {PV(NoParam, NoParam), PV(Half, NoParam), PV(NoParam, One), PV(<<1, 4>>, Half),
   PV(<<3, 2>>, <<-1, 2>>)}

Scalars == {Zero, <<2, 1>>, <<-1, 2>>}

ItemVals == {Zero, <<3, 4>>}

\* self is the vector before the call, built the vector as constructed
VecCalled(op, other, x, key, r) ==
  [Idle EXCEPT !.op = op, !.self = params, !.other = other, !.scalar = x,
               !.name = key, !.calls = last.calls + 1,
               !.built = IF last.calls = 0 THEN params ELSE last.built, !.res = r]

\* one vector, held in params, operated on by a sequence of calls
InitVec ==
  /\ params \in VecSet
  /\ scopes = <<>>
  /\ defns = EmptyScope
  /\ defns0 = EmptyScope
  /\ expr = ReturnNode(NilNode)
  /\ last = Idle
  /\ wrapper = NoWrapper

\* c = params + other
VecAdd(other) ==
  /\ last.calls < MaxCalls
  /\ last' = VecCalled("__add__", other, NoVal, "", ParamVector_add(params, other))
  /\ UNCHANGED <<wrapper, scopes, params, defns, defns0, expr>>

\* c = params - other
VecSub(other) ==
  /\ last.calls < MaxCalls
  /\ last' = VecCalled("__sub__", other, NoVal, "", ParamVector_sub(params, other))
  /\ UNCHANGED <<wrapper, scopes, params, defns, defns0, expr>>

\* params += other
VecIAdd(other) ==
  /\ last.calls < MaxCalls
  /\ LET r == ParamVector_iadd(params, other) IN
       /\ last' = VecCalled("__iadd__", other, NoVal, "", r)
       /\ params' = r.val
  /\ UNCHANGED <<wrapper, scopes, defns, defns0, expr>>

\* params -= other
VecISub(other) ==
  /\ last.calls < MaxCalls
  /\ LET r == ParamVector_isub(params, other) IN
       /\ last' = VecCalled("__isub__", other, NoVal, "", r)
       /\ params' = r.val
  /\ UNCHANGED <<wrapper, scopes, defns, defns0, expr>>

\* c = params * x
VecMul(x) ==
  /\ last.calls < MaxCalls
  /\ last' = VecCalled("__mul__", NoVal, x, "", ParamVector_mul(params, x))
  /\ UNCHANGED <<wrapper, scopes, params, defns, defns0, expr>>

\* c = x * params
VecRMul(x) ==
  /\ last.calls < MaxCalls
  /\ last' = VecCalled("__rmul__", NoVal, x, "", ParamVector_rmul(params, x))
  /\ UNCHANGED <<wrapper, scopes, params, defns, defns0, expr>>

\* params *= x
VecIMul(x) ==
  /\ last.calls < MaxCalls
  /\ LET r == ParamVector_imul(params, x) IN
       /\ last' = VecCalled("__imul__", NoVal, x, "", r)
       /\ params' = r.val
  /\ UNCHANGED <<wrapper, scopes, defns, defns0, expr>>

\* c = params / x
VecTrueDiv(x) ==
  /\ last.calls < MaxCalls
  /\ last' = VecCalled("__truediv__", NoVal, x, "", ParamVector_truediv(params, x))
  /\ UNCHANGED <<wrapper, scopes, params, defns, defns0, expr>>

\* params /= x
VecITrueDiv(x) ==
  /\ last.calls < MaxCalls
  /\ LET r == ParamVector_itruediv(params, x) IN
       /\ last' = VecCalled("__itruediv__", NoVal, x, "", r)
       /\ params' = r.val
  /\ UNCHANGED <<wrapper, scopes, defns, defns0, expr>>

\* c = -params
VecNeg ==
  /\ last.calls < MaxCalls
  /\ last' = VecCalled("__neg__", NoVal, NoVal, "", ParamVector_neg(params))
  /\ UNCHANGED <<wrapper, scopes, params, defns, defns0, expr>>

\* params[key] = value
VecSetItem(key, value) ==
  /\ last.calls < MaxCalls
  /\ LET r == ParamVector_setitem(params, key, value) IN
       /\ last' = VecCalled("__setitem__", NoVal, value, key, r)
       /\ params' = r.val
  /\ UNCHANGED <<wrapper, scopes, defns, defns0, expr>>

NextVec ==
  \/ \E other \in VecSet : VecAdd(other)
  \/ \E other \in VecSet : VecSub(other)
  \/ \E other \in VecSet : VecIAdd(other)
  \/ \E other \in VecSet : VecISub(other)
  \/ \E x \in Scalars : VecMul(x)
  \/ \E x \in Scalars : VecRMul(x)
  \/ \E x \in Scalars : VecIMul(x)
  \/ \E x \in Scalars : VecTrueDiv(x)
  \/ \E x \in Scalars : VecITrueDiv(x)
  \/ VecNeg
  \/ \E key \in ParamNames, value \in ItemVals : VecSetItem(key, value)

SpecVec == InitVec /\ [][NextVec]_vars

----------------------------------------------------------------------------
(* Properties of gradients, pure evaluation and parameter vectors *)

\* the symbolic theta names of the Flips occurring in an expression
RECURSIVE FlipNames(_)
FlipNames(n) ==
  IF Tag(n) = "Flip" THEN (IF n[2] = "sym" THEN {n[3]} ELSE {})
  ELSE UNION {FlipNames(subexpressions(n)[i]) : i \in 1..Len(subexpressions(n))}

\* the names occurring in the root expression or in any definition
ProgramFlipNames ==
  FlipNames(expr) \cup UNION {FlipNames(defns0[n]) : n \in BoundNames(<<defns0>>)}

\* the environment the last Program-level call built
ProgPreEnv == Program_env(last.pre[1], params)

\* C14: the vector gradient returns has as keys exactly the symbolic theta
\* names of the Flips in the node (for Program.gradient: the names in the root
\* expression or in any definition), each mapped to its deriv; it can be added
\* to and subtracted from any vector keyed by those names.
GradientKeys ==
  /\ (last.op = "gradient" /\ last.res.ok)
     => /\ Keys(last.res.val) = FlipNames(expr)
        /\ \A p \in FlipNames(expr) :
             last.res.val[p] = deriv(expr, ProgPreEnv, p, last.target).val
  /\ (last.op = "Program.gradient" /\ last.res.ok)
     => /\ Keys(last.res.val) = ProgramFlipNames
        /\ \A p \in ProgramFlipNames :
             last.res.val[p] = deriv(expr, ProgPreEnv, p, last.target).val
        /\ \A v \in VecSet :
             Keys(v) = ProgramFlipNames
             => /\ ParamVector_add(v, last.res.val).ok
                /\ ParamVector_sub(v, last.res.val).ok
                /\ ParamVector_iadd(v, last.res.val).ok
                /\ ParamVector_isub(v, last.res.val).ok

\* a gradient with a key that occurs in a definition only, subtracted from
\* the parameters the call was made with
GradientKeysWitness ==
  /\ last.op = "Program.gradient"
  /\ last.res.ok
  /\ FlipNames(expr) = {"p"}
  /\ Keys(last.res.val) = {"p", "q"}
  /\ last.res.val["p"] # Zero
  /\ Keys(params) = {"p", "q"}
  /\ ParamVector_sub(params, last.res.val).ok

\* the evaluated condition of the conditional the last eval call was made on
EvalCondition == eval(last.node[2], ProgPreEnv)

\* C15: eval of If(c, t, f) is the evaluation of t when c evaluates to True
\* and of f when c evaluates to False; the branch not taken is not evaluated,
\* so a failing expression there does not make eval fail.
IfShortCircuit ==
  (/\ last.op = "eval"
   /\ Tag(last.node) = "If"
   /\ EvalCondition.ok
   /\ EvalCondition.val \in {TrueNode, FalseNode})
  => LET taken == IF EvalCondition.val = TrueNode THEN last.node[3] ELSE last.node[4]
         r == eval(taken, ProgPreEnv)
     IN /\ last.res.ok = r.ok
        /\ last.res.val = r.val
        /\ last.res.err = r.err

\* a conditional whose condition is True and whose else-branch fails on its own
IfShortCircuitWitness ==
  /\ last.op = "eval"
  /\ Tag(last.node) = "If"
  /\ EvalCondition.ok
  /\ EvalCondition.val = TrueNode
  /\ ~eval(last.node[4], ProgPreEnv).ok
  /\ last.res.ok

\* C16: eval of If(c, t, f) fails whenever the evaluated condition is not True
\* or False: Nil, a Cons, or a variable bound to a non-boolean value.
IfConditionMustBeBoolean ==
  (/\ last.op = "eval"
   /\ Tag(last.node) = "If"
   /\ EvalCondition.ok
   /\ EvalCondition.val \notin {TrueNode, FalseNode})
  => ~last.res.ok

\* C17: eval is idempotent: where eval(node, env) succeeds, evaluating its
\* result in the same environment succeeds and gives the same value, also in
\* an environment whose base scope holds the definitions as written.
EvalIdempotent ==
  (last.op = "eval" /\ last.res.ok)
  => /\ eval(last.res.val, ProgPreEnv).ok
     /\ eval(last.res.val, ProgPreEnv).val = last.res.val

\* possible_vals of rest in env with a new scope that binds x to v
RestSupport(n, env, v) ==
  possible_vals(n[4], WithScopes(env, PushBinding(env.scopes, n[2], v)))

\* C18: possible_vals of Return(v) is {eval(v, env)}; of a Flip it is
\* {True, False} whatever theta is; of Sequence(x, bound, rest) it is the
\* union over v in possible_vals(bound, env) of possible_vals(rest, env with a
\* new scope x -> v), every iteration under its own binding of x only.
PossibleValsSupport ==
  last.op = "possible_vals" =>
    CASE Tag(last.node) = "Return" ->
           eval(last.node[2], PreEnv).ok
           => last.res.ok /\ last.res.val = {eval(last.node[2], PreEnv).val}
      [] Tag(last.node) = "Flip" ->
           last.res.ok /\ last.res.val = {TrueNode, FalseNode}
      [] Tag(last.node) = "Seq" ->
           LET bound == possible_vals(last.node[3], PreEnv) IN
           (/\ bound.ok
            /\ \A v \in bound.val : RestSupport(last.node, PreEnv, v).ok)
           => /\ last.res.ok
              /\ last.res.val =
                   UNION {RestSupport(last.node, PreEnv, v).val : v \in bound.val}

\* a binder that shadows a definition, bound to two values in turn, each
\* giving a value of its own
PossibleValsWitness ==
  /\ last.op = "possible_vals"
  /\ Tag(last.node) = "Seq"
  /\ Tag(last.node[3]) = "Flip"
  /\ InScope(last.pre[1], last.node[2])
  /\ last.node[4] = ReturnNode(VariableNode(last.node[2]))
  /\ last.res.ok
  /\ last.res.val = {TrueNode, FalseNode}

SumOps == {"__add__", "__sub__", "__iadd__", "__isub__"}

InPlaceOps == {"__iadd__", "__isub__", "__imul__", "__itruediv__", "__setitem__"}

VecOps ==
  SumOps \cup InPlaceOps \cup {"__mul__", "__rmul__", "__truediv__", "__neg__"}

\* C19: a + b, a - b, a += b and a -= b fail with a key-mismatch error exactly
\* when the key sets of a and b differ; on failure the in-place forms leave a
\* unchanged, on success the result has the key set of a with the per-key sum
\* or difference.
VecSumContract ==
  last.op \in SumOps =>
    LET a == last.self
        b == last.other
    IN /\ ~last.res.ok <=> Keys(a) # Keys(b)
       /\ ~last.res.ok => last.res.err = KeysMismatch /\ params = a
       /\ last.res.ok
          => /\ Keys(last.res.val) = Keys(a)
             /\ \A k \in Keys(a) :
                  last.res.val[k] = IF last.op \in {"__add__", "__iadd__"}
                                    THEN RAdd(a[k], b[k]) ELSE RSub(a[k], b[k])
             /\ params = IF last.op \in InPlaceOps THEN last.res.val ELSE a

\* a -= b refused for a right operand with one key more, a left as it was
VecSumWitness ==
  /\ last.op = "__isub__"
  /\ Keys(last.self) = {"p"}
  /\ Keys(last.other) = {"p", "q"}
  /\ ~last.res.ok
  /\ params = last.self

\* C20: the key set of a vector is closed: after any sequence of item
\* assignments, +, -, scalar * and /, negation and in-place forms its key set
\* is the one it was constructed with, every result vector has the key set of
\* its operand, and assigning to an absent key fails and leaves the vector
\* unchanged.
KeySetClosed ==
  last.op \in VecOps =>
    /\ Keys(params) = Keys(last.built)
    /\ last.res.ok => Keys(last.res.val) = Keys(last.self)
    /\ (last.op = "__setitem__" /\ last.self[last.name] = NoParam)
       => ~last.res.ok /\ params = last.self

\* an assignment to an absent key refused, after an operation that changed
\* the values of the vector
KeySetClosedWitness ==
  /\ last.op = "__setitem__"
  /\ last.calls = 2
  /\ last.self # last.built
  /\ Keys(last.self) = {"p"}
  /\ last.name = "q"
  /\ ~last.res.ok
  /\ params = last.self

\* C21: v / 0 and v /= 0 fail with a division-by-zero error, also for a
\* vector with no keys; on failure the in-place form leaves every value of
\* the vector unchanged.
DivisionByZeroFails ==
  (last.op \in {"__truediv__", "__itruediv__"} /\ last.scalar = Zero)
  => /\ ~last.res.ok
     /\ last.res.err = "ZeroDivisionError"
     /\ params = last.self

\* v /= 0 refused for a vector with no keys
DivisionByZeroWitness ==
  /\ last.op = "__itruediv__"
  /\ last.scalar = Zero
  /\ Keys(last.self) = {}
  /\ ~last.res.ok
  /\ params = last.self

----------------------------------------------------------------------------
(* Programs under name analysis: analysis.name_analysis and the calls it is
   run ahead of, on programs whose references may or may not resolve *)

Z == VariableNode("z")
W == VariableNode("w")

\* definitions with and without unresolved references
NameDefns ==
  ProgDefns
  \cup {Scope(Y, Unbound), Scope(Z, W),
        Scope(IfElseNode(TrueNode, TrueNode, Z), FlipSym("q")),
        Scope(SequenceNode("y", ReturnNode(Y), ReturnNode(Y)), Unbound)}

\* root expressions with and without unresolved references
NameExprs ==
  ProgExprs
  \cup {ReturnNode(Z), ReturnNode(IfElseNode(X, Z, W)),
        ReturnNode(IfElseNode(TrueNode, TrueNode, Z)),
        SequenceNode("x", ReturnNode(X), ReturnNode(X)),
        SequenceNode("y", FlipLit(Half),
                     SequenceNode("x", ReturnNode(Y), ReturnNode(ConsNode(X, Y)))),
        SequenceNode("x", ReturnNode(Z), ReturnNode(W)),
        SequenceNode("x", FlipLit(Half), ReturnNode(ConsNode(W, Z)))}

InitNames ==
  /\ defns \in NameDefns
  /\ defns0 = defns
  /\ expr \in NameExprs
  /\ params \in ParamSet
  /\ scopes = <<>>
  /\ last = Idle
  /\ wrapper = NoWrapper

\* name_analysis(prog), prog.defns holding its keys in the given order
NameAnalysis(order) ==
  /\ last.calls < MaxCalls
  /\ last' = [ProgCalled("name_analysis", NoVal, 0, <<>>,
                         name_analysis(defns, order, expr))
                EXCEPT !.order = order]
  /\ UNCHANGED <<wrapper, scopes, params, defns, defns0, expr>>

\* prog.expr.possible_vals(prog.env(params))
ExprPossibleVals ==
  /\ last.calls < MaxCalls
  /\ LET r == possible_vals(expr, Program_env(defns, params)) IN
       /\ last' = ProgCalled("possible_vals", NoVal, 0, <<>>, r)
       /\ defns' = r.scopes[1]
  /\ UNCHANGED <<wrapper, scopes, params, defns0, expr>>

NextNames ==
  \/ \E o \in DefnOrders(defns) : NameAnalysis(o)
  \/ \E t \in Targets : ProgramInfer(t)
  \/ \E t \in Targets : ProgramGradient(t)
  \/ ExprPossibleVals

SpecNames == InitNames /\ [][NextNames]_vars

\* the references of n that are out of scope when the names of inscope are in
\* scope at n, in the order of a traversal that goes through the bound
\* expression before the rest and through condition, then and else in turn
RECURSIVE Offenders(_, _)
Offenders(n, inscope) ==
  CASE Tag(n) = "Var" -> IF n[2] \in inscope THEN <<>> ELSE <<n[2]>>
    [] Tag(n) = "If" ->
         Offenders(n[2], inscope) \o Offenders(n[3], inscope)
           \o Offenders(n[4], inscope)
    [] Tag(n) = "Cons" -> Offenders(n[2], inscope) \o Offenders(n[3], inscope)
    [] Tag(n) = "Return" -> Offenders(n[2], inscope)
    [] Tag(n) = "Seq" ->
         Offenders(n[3], inscope) \o Offenders(n[4], inscope \cup {n[2]})
    [] OTHER -> <<>>

\* the out-of-scope references of the definitions, taken in order
RECURSIVE DefnOffenders(_, _, _)
DefnOffenders(d, order, inscope) ==
  IF order = <<>> THEN <<>>
  ELSE Offenders(d[Head(order)], inscope) \o DefnOffenders(d, Tail(order), inscope)

\* the out-of-scope references of a program: definitions in order, then root
ProgramOffenders(d, order, e) ==
  LET names == {order[i] : i \in DOMAIN order} IN
  DefnOffenders(d, order, names) \o Offenders(e, names)

\* C22: name_analysis returns normally exactly when no reference of the
\* definitions or of the root is out of scope, a name being in scope when it
\* is a definition name or the binder of an enclosing Sequence whose rest
\* holds the reference; otherwise it raises the unbound-name error carrying
\* the first out-of-scope name in traversal order, both branches of every
\* conditional included.
NameAnalysisContract ==
  last.op = "name_analysis"
  => LET off == ProgramOffenders(defns, last.order, expr) IN
     /\ last.res.ok <=> off = <<>>
     /\ ~last.res.ok
        => /\ last.res.err = "UnboundNameError"
           /\ last.res.val = Head(off)

NameAnalysisWitness ==
  /\ last.op = "name_analysis"
  /\ defns = Scope(Z, W)
  /\ last.order = <<"y", "x">>
  /\ expr = ReturnNode(IfElseNode(TrueNode, TrueNode, Z))
  /\ ~last.res.ok
  /\ last.res.val = "w"

\* the program of the current state passes name analysis (whether it does is
\* the same for every order of its definitions)
Accepted == \E o \in DefnOrders(defns0) : name_analysis(defns0, o, expr).ok

\* C23: on a program name analysis accepts, Program.infer, Program.gradient
\* and possible_vals of the root never fail with the unbound-name error,
\* whatever the parameter vector and the variable-free target.
AcceptedProgramsResolve ==
  (/\ last.op \in {"Program.infer", "Program.gradient", "possible_vals"}
   /\ Accepted
   /\ last.op # "possible_vals" => FreeVars(last.target) = {})
  => last.res.err # NotBound

AcceptedProgramsWitness ==
  /\ last.op = "Program.gradient"
  /\ Accepted
  /\ defns0 = Scope(Y, TrueNode)
  /\ Tag(expr) = "Seq"
  /\ "x" \in FreeVars(expr)
  /\ FreeVars(last.target) = {}
  /\ last.res.ok

\* a program name analysis rejects does fail that way
RejectedProgramFails ==
  /\ last.op = "possible_vals"
  /\ ~Accepted
  /\ last.res.err = NotBound

\* C24: sampling a Flip whose theta resolves takes one draw d and returns
\* True exactly when d < theta, False otherwise; with theta 0 it returns
\* False and with theta 1 it returns True, whatever the draw.
FlipSampleContract ==
  (/\ last.op = "sample"
   /\ Tag(last.node) = "Flip"
   /\ Theta(last.node, params) # NoParam)
  => LET theta == Theta(last.node, params)
         d == Head(last.draws)
     IN /\ last.res.ok
        /\ last.res.draws = Tail(last.draws)
        /\ last.res.val = (IF RLess(d, theta) THEN TrueNode ELSE FalseNode)
        /\ theta = Zero => last.res.val = FalseNode
        /\ theta = One => last.res.val = TrueNode
        /\ scopes = last.pre

FlipSampleWitness ==
  /\ last.op = "sample"
  /\ last.node = FlipLit(Zero)
  /\ last.draws = <<Zero>>
  /\ last.res.ok
  /\ last.res.val = FalseNode

\* C25: remove_scope on an environment with one scope returns and leaves no
\* scope; add_binding on an environment with no scope raises IndexError and
\* leaves it with no scope.
LastScopeRemovable ==
  /\ (last.op = "remove_scope" /\ Len(last.pre) = 1)
     => (last.res.ok /\ scopes = <<>>)
  /\ (last.op = "add_binding" /\ last.pre = <<>>)
     => /\ ~last.res.ok
        /\ last.res.err = "IndexError"
        /\ scopes = <<>>

LastScopeRemovableWitness ==
  /\ last.op = "add_binding"
  /\ last.pre = <<>>
  /\ last.res.err = "IndexError"
  /\ scopes = <<>>

----------------------------------------------------------------------------
(* PickleLoader and PickleDumper: a wrapper, the files it opened and the
   with block of its caller *)

\* the objects pickled
Objs == {"a", "b"}

\* what the file at the path holds before the wrapper is used
FileData == {<<>>, <<"a">>, <<"b", "a">>}

\* the outcome of a method of the wrapper and the wrapper after it
WOk(v, w) == [ok |-> TRUE, val |-> v, err |-> "", self |-> w]
WRaise(e, w) == [ok |-> FALSE, val |-> NoVal, err |-> e, self |-> w]

\* __init__: pickle_file and pickler are None (0); opens counts the calls of
\* open, closes[h] the calls of close on the h-th file opened
NewWrapper(kind, data) ==
  [kind |-> kind, pickle_file |-> 0, pickler |-> 0, opens |-> 0,
   closes |-> <<>>, data |-> data, offset |-> 0, block |-> "out"]

\* a file object after close()
Closed(w, h) == w.closes[h] > 0

\* open(self.path, mode): a new file object; "wb" truncates the file
open(w, mode) ==
  [w EXCEPT !.opens = @ + 1, !.closes = Append(@, 0), !.offset = 0,
            !.data = IF mode = "wb" THEN <<>> ELSE @]

\* PickleLoader.__enter__
PickleLoader_enter(w) ==
  LET f == open(w, "rb") IN WOk(NoVal, [f EXCEPT !.pickle_file = f.opens])

\* PickleDumper.__enter__
PickleDumper_enter(w) ==
  LET f == open(w, "wb") IN
  WOk(NoVal, [f EXCEPT !.pickle_file = f.opens, !.pickler = f.opens])

\* PickleLoader.load: pickle.load reads the next object of the file
PickleLoader_load(w) ==
  IF w.pickle_file = 0 THEN WRaise("RuntimeError", w)
  ELSE IF Closed(w, w.pickle_file) THEN WRaise("ValueError", w)
  ELSE IF w.offset >= Len(w.data) THEN WRaise("EOFError", w)
  ELSE WOk(w.data[w.offset + 1], [w EXCEPT !.offset = @ + 1])

\* PickleDumper.dump: the pickler writes to the file it was built on
PickleDumper_dump(w, obj) ==
  IF w.pickler = 0 THEN WRaise("RuntimeError", w)
  ELSE IF Closed(w, w.pickler) THEN WRaise("ValueError", w)
  ELSE WOk(NoVal, [w EXCEPT !.data = Append(@, obj)])

\* __exit__ of either class: closes the file it holds and returns
\* exc_type is None; the attributes keep the closed file and its pickler
Pickle_exit(w, exc) ==
  WOk(exc = "",
      IF w.pickle_file # 0
        THEN [w EXCEPT !.closes[w.pickle_file] = @ + 1] ELSE w)

\* the method of the wrapper a caller uses
Pickle_call(w, obj) ==
  IF w.kind = "PickleDumper" THEN PickleDumper_dump(w, obj)
  ELSE PickleLoader_load(w)

\* the end of a with block whose body raised exc ("" when it did not): the
\* error goes on to the caller unless __exit__ returned a true value
With_exit(w, exc) ==
  LET x == Pickle_exit(w, exc)
      after == [x.self EXCEPT !.block = "out"]
  IN IF exc # "" /\ x.val = FALSE THEN WRaise(exc, after) ELSE WOk(NoVal, after)

WrapperCalled(op, obj, r) ==
  [Idle EXCEPT !.op = op, !.target = obj, !.self = wrapper,
               !.calls = last.calls + 1, !.res = [r EXCEPT !.self = NoVal]]

InitPickle ==
  /\ scopes = <<>>
  /\ params = PV(NoParam, NoParam)
  /\ defns = EmptyScope
  /\ defns0 = EmptyScope
  /\ expr = ReturnNode(NilNode)
  /\ last = Idle
  /\ \E kind \in {"PickleLoader", "PickleDumper"}, data \in FileData :
       wrapper = NewWrapper(kind, data)

\* with wrapper: __enter__
WithEnter ==
  /\ wrapper.block = "out"
  /\ wrapper.opens < MaxCalls
  /\ LET r == IF wrapper.kind = "PickleDumper" THEN PickleDumper_enter(wrapper)
              ELSE PickleLoader_enter(wrapper)
     IN /\ last' = WrapperCalled("__enter__", NoVal, r)
        /\ wrapper' = [r.self EXCEPT !.block = "in"]
  /\ UNCHANGED <<scopes, params, defns, defns0, expr>>

\* dump or load in the body of the with block; an error it raises leaves
\* the block
BodyCall(obj) ==
  /\ wrapper.block = "in"
  /\ Len(wrapper.data) <= MaxK
  /\ LET r == Pickle_call(wrapper, obj)
         x == With_exit(r.self, r.err)
     IN IF r.ok
          THEN /\ last' = WrapperCalled("call", obj, r)
               /\ wrapper' = r.self
          ELSE /\ last' = WrapperCalled("body raised", obj, x)
               /\ wrapper' = x.self
  /\ UNCHANGED <<scopes, params, defns, defns0, expr>>

\* the body of the with block finishes
BodyReturn ==
  /\ wrapper.block = "in"
  /\ LET x == With_exit(wrapper, "") IN
       /\ last' = WrapperCalled("body returned", NoVal, x)
       /\ wrapper' = x.self
  /\ UNCHANGED <<scopes, params, defns, defns0, expr>>

\* the body of the with block raises an error of its own
BodyRaise(exc) ==
  /\ wrapper.block = "in"
  /\ LET x == With_exit(wrapper, exc) IN
       /\ last' = [WrapperCalled("body raised", NoVal, x) EXCEPT !.name = exc]
       /\ wrapper' = x.self
  /\ UNCHANGED <<scopes, params, defns, defns0, expr>>

\* dump or load with no with block around it
CallOutside(obj) ==
  /\ wrapper.block = "out"
  /\ last.calls < 2 * MaxCalls
  /\ LET r == Pickle_call(wrapper, obj) IN
       /\ last' = WrapperCalled("call outside", obj, r)
       /\ wrapper' = r.self
  /\ UNCHANGED <<scopes, params, defns, defns0, expr>>

NextPickle ==
  \/ WithEnter
  \/ \E obj \in Objs : BodyCall(obj)
  \/ BodyReturn
  \/ BodyRaise("KeyError")
  \/ \E obj \in Objs : CallOutside(obj)

SpecPickle == InitPickle /\ [][NextPickle]_vars

\* C26: the wrapper's file is open only inside the with block: entering
\* opens one file, leaving closes that file exactly once whether the body
\* returned or raised, an error of the body reaches the caller, and dump or
\* load outside a with block, before entering or after leaving, raises
\* RuntimeError.
PickleFileScoped ==
  /\ last.op = "__enter__"
     => /\ wrapper.opens = last.self.opens + 1
        /\ wrapper.pickle_file = wrapper.opens
        /\ ~Closed(wrapper, wrapper.pickle_file)
  /\ last.op \in {"body returned", "body raised"}
     => /\ wrapper.closes[last.self.pickle_file] = 1
        /\ wrapper.opens = last.self.opens
  /\ wrapper.block = "out"
     => \A h \in 1..wrapper.opens : wrapper.closes[h] = 1
  /\ last.op = "body raised" => ~last.res.ok
  /\ (last.op = "body raised" /\ last.name # "") => last.res.err = last.name
  /\ last.op = "body returned" => last.res.ok
  /\ last.op = "call outside"
     => (~last.res.ok /\ last.res.err = "RuntimeError")

\* possible_vals of the node last sampled, in the environment it was sampled in
SampledSupport == possible_vals(last.node, PreEnv)

\* C27: sample, possible_vals and infer agree: a value sample returns is in
\* possible_vals of the node and has infer above 0 (where those two return),
\* and sample returns on a node on which possible_vals returns and infer
\* returns for each of its values.
TraversalsAgree ==
  last.op = "sample"
  => /\ (last.res.ok /\ SampledSupport.ok)
        => last.res.val \in SampledSupport.val
     /\ (last.res.ok /\ infer(last.node, PreEnv, last.res.val).ok)
        => RLess(Zero, infer(last.node, PreEnv, last.res.val).val)
     /\ (/\ SampledSupport.ok
         /\ \A v \in SampledSupport.val : infer(last.node, PreEnv, v).ok)
        => last.res.ok

----------------------------------------------------------------------------
(* infer on targets that are expressions to evaluate, not values *)

TrueIf == IfElseNode(TrueNode, TrueNode, FalseNode)

\* variable-free targets, values and expressions that evaluate to one
TargetExprs ==
  {TrueNode, FalseNode, NilNode, TNil, TrueIf,
   IfElseNode(FalseNode, TrueNode, NilNode), ConsNode(TrueIf, NilNode)}

NextTargets ==
  \/ \E n \in Nodes, t \in TargetExprs : CallInfer(n, t)
  \/ Consume

SpecTargets == Init /\ [][NextTargets]_vars

\* possible_vals of the node last inferred, in the environment of the call
InferredSupport == possible_vals(last.node, PreEnv)

\* infer returned a non-zero mass for a variable-free target and possible_vals
\* returns on the same node and environment
NonZeroMass ==
  /\ last.op = "infer"
  /\ last.res.ok
  /\ last.res.val # Zero
  /\ FreeVars(last.target) = {}
  /\ InferredSupport.ok

\* C28 as stated: infer is non-zero only for a target that is a member of
\* possible_vals.
InferSupportOfTarget == NonZeroMass => last.target \in InferredSupport.val

\* C28: infer is non-zero only for a target whose value, the node the target
\* evaluates to, is a member of possible_vals.
InferSupportOfValue ==
  NonZeroMass => eval(last.target, PreEnv).val \in InferredSupport.val

InferSupportWitness ==
  /\ NonZeroMass
  /\ last.target = ConsNode(TrueIf, NilNode)
  /\ Tag(last.node) = "Seq"
  /\ last.target \notin InferredSupport.val

----------------------------------------------------------------------------
(* deriv summed over the support of a node *)

\* nodes with one parameter in several Flips, and Sequences under a Flip
\* whose bound expression reads the name they bind
MassNodes ==
  Flips \cup Eff2
  \cup {SequenceNode("x", FlipSym("p"),
                     SequenceNode("y", FlipSym("p"),
                                  ReturnNode(IfElseNode(X, Y, FalseNode)))),
        SequenceNode("y", FlipSym("p"),
                     SequenceNode("x", ReturnNode(IfElseNode(Y, X, NotX)),
                                  ReturnNode(X)))}

NextMass ==
  \/ \E n \in MassNodes, p \in ParamNames, t \in Targets : CallDeriv(n, p, t)
  \/ Consume

SpecMass == Init /\ [][NextMass]_vars

\* sum over v in todo of deriv(n, env, p, v)
RECURSIVE DerivSum(_, _, _, _)
DerivSum(n, env, p, todo) ==
  IF todo = {} THEN Zero
  ELSE LET v == Pick(todo) IN
       RAdd(deriv(n, env, p, v).val, DerivSum(n, env, p, todo \ {v}))

\* C29: where possible_vals returns and deriv returns for each of its values,
\* the derivatives of a node with respect to a parameter sum to 0 over the
\* values of possible_vals.
DerivMassConserved ==
  (/\ last.op = "deriv"
   /\ possible_vals(last.node, PreEnv).ok
   /\ \A v \in possible_vals(last.node, PreEnv).val :
        deriv(last.node, PreEnv, last.param, v).ok)
  => DerivSum(last.node, PreEnv, last.param,
              possible_vals(last.node, PreEnv).val) = Zero

----------------------------------------------------------------------------
(* Learning (src/pyppl/learning.py): the average negative log-likelihood of
   a data set and its gradient.  A float that is a sum of logarithms is kept
   as the sequence of the probabilities whose logarithm was taken. *)

LogDomain == "ValueError: math domain error"

\* math.log(x): defined for x > 0; the term is kept as its argument
math_log(x) == IF RLess(Zero, x) THEN Ok(x, <<>>) ELSE Raise(LogDomain, <<>>)

\* ParamVector.zero(params): a zero for every key of params
ParamVector_zero(pv) ==
  [k \in ParamNames |-> IF pv[k] = NoParam THEN NoParam ELSE Zero]

RECURSIVE NLLLoop(_, _, _, _, _, _)

\* acc -= math.log(prob); n_possible += 1, and on to the next datum
NLLCount(d, e, pv, data, acc, n, term) ==
  IF ~term.ok THEN term
  ELSE NLLLoop(d, e, pv, Tail(data), Append(acc, term.val), n + 1)

\* the loop body with the test on prob dropped: every datum is counted
NLLStep_counts_all(d, e, pv, data, acc, n, prob) ==
  IF ~prob.ok THEN Raise(prob.err, <<>>)
  ELSE NLLCount(prob.scopes[1], e, pv, data, acc, n, math_log(prob.val))

\* the body of the loop of avg_negative_log_likelihood, prob inferred
NLLStep(d, e, pv, data, acc, n, prob) ==
  IF ~prob.ok THEN Raise(prob.err, <<>>)
  ELSE IF RLess(Zero, prob.val)
         THEN NLLCount(prob.scopes[1], e, pv, data, acc, n, math_log(prob.val))
  ELSE NLLLoop(prob.scopes[1], e, pv, Tail(data), acc, n)

\* the loop of avg_negative_log_likelihood over the data left; acc holds the
\* probabilities whose logarithm was subtracted, n is n_possible
NLLLoop(d, e, pv, data, acc, n) ==
  IF data = <<>> THEN Ok([logs |-> acc, n |-> n], <<>>)
  ELSE NLLStep(d, e, pv, data, acc, n, Program_infer(d, e, pv, Head(data)))

\* return acc / n_possible
NLLDivide(r) ==
  IF ~r.ok THEN r
  ELSE IF r.val.n = 0 THEN Raise("ZeroDivisionError", <<>>)
  ELSE r

\* avg_negative_log_likelihood: the value is minus the sum of the logarithms
\* of logs, divided by n
avg_negative_log_likelihood(d, e, pv, data) ==
  NLLDivide(NLLLoop(d, e, pv, data, <<>>, 0))

RECURSIVE NLLGradLoop(_, _, _, _, _, _, _)

\* grad -= quotient; n_possible += 1, and on to the next datum
NLLGradCount(d, e, pv, data, used, n, prob, sub) ==
  IF ~sub.ok THEN Raise(sub.err, <<>>)
  ELSE NLLGradLoop(d, e, pv, Tail(data), sub.val, Append(used, prob), n + 1)

\* prog.gradient(params, datum) / prob
NLLGradQuotient(d, e, pv, data, grad, used, n, prob, g) ==
  IF ~g.ok THEN Raise(g.err, <<>>)
  ELSE NLLGradCount(g.scopes[1], e, pv, data, used, n, prob,
                    ParamVector_isub(grad, ParamVector_truediv(g.val, prob).val))

\* the body of the loop of avg_negative_log_likelihood_gradient
NLLGradStep(d, e, pv, data, grad, used, n, prob) ==
  IF ~prob.ok THEN Raise(prob.err, <<>>)
  ELSE IF RLess(Zero, prob.val)
         THEN NLLGradQuotient(prob.scopes[1], e, pv, data, grad, used, n, prob.val,
                              Program_gradient(prob.scopes[1], e, pv, Head(data)))
  ELSE NLLGradLoop(prob.scopes[1], e, pv, Tail(data), grad, used, n)

\* the loop of avg_negative_log_likelihood_gradient over the data left; used
\* holds the probabilities divided by, n is n_possible
NLLGradLoop(d, e, pv, data, grad, used, n) ==
  IF data = <<>> THEN Ok([grad |-> grad, divisors |-> used, n |-> n], <<>>)
  ELSE NLLGradStep(d, e, pv, data, grad, used, n,
                   Program_infer(d, e, pv, Head(data)))

\* return grad / n_possible
NLLGradDivide(r, q) ==
  IF ~q.ok THEN q ELSE Ok([r.val EXCEPT !.grad = q.val], <<>>)

\* avg_negative_log_likelihood_gradient: grad is the vector returned
NLLGradReturn(r) ==
  IF ~r.ok THEN r
  ELSE NLLGradDivide(r, ParamVector_truediv(r.val.grad, <<r.val.n, 1>>))

avg_negative_log_likelihood_gradient(d, e, pv, data) ==
  NLLGradReturn(NLLGradLoop(d, e, pv, data, ParamVector_zero(pv), <<>>, 0))

\* the programs learnt
LearnExprs ==
  {FlipSym("p"), FlipLit(Zero), ReturnNode(X),
   SequenceNode("x", FlipSym("p"), ReturnNode(X)),
   SequenceNode("y", FlipSym("q"), ReturnNode(IfElseNode(Y, NilNode, TrueNode))),
   SequenceNode("x", FlipSym("p"),
                SequenceNode("y", FlipSym("q"),
                             ReturnNode(IfElseNode(X, Y, FalseNode))))}

\* training sets: lists of up to MaxK values
DataSets ==
  UNION {[1..k -> {TrueNode, FalseNode, NilNode}] : k \in 0..MaxK}

InitLearn ==
  /\ defns \in DefnsSet
  /\ defns0 = defns
  /\ expr \in LearnExprs
  /\ params \in ParamSet
  /\ scopes = <<>>
  /\ last = Idle
  /\ wrapper = NoWrapper

AvgNLL(data) ==
  /\ last.op = "none"
  /\ last' = [ProgCalled("avg_negative_log_likelihood", NoVal, 0, <<>>,
                         avg_negative_log_likelihood(defns, expr, params, data))
                EXCEPT !.data = data]
  /\ UNCHANGED <<wrapper, scopes, params, defns, defns0, expr>>

AvgNLLGradient(data) ==
  /\ last.op = "none"
  /\ last' = [ProgCalled("avg_negative_log_likelihood_gradient", NoVal, 0, <<>>,
                         avg_negative_log_likelihood_gradient(defns, expr, params,
                                                              data))
                EXCEPT !.data = data]
  /\ UNCHANGED <<wrapper, scopes, params, defns, defns0, expr>>

NextLearn ==
  \/ \E data \in DataSets : AvgNLL(data)
  \/ \E data \in DataSets : AvgNLLGradient(data)
  \/ Consume

SpecLearn == InitLearn /\ [][NextLearn]_vars

LearnOps ==
  {"avg_negative_log_likelihood", "avg_negative_log_likelihood_gradient"}

\* the probability the program gives datum i of the last call
ProbOf(i) == Program_infer(defns0, expr, params, last.data[i])

\* the data points of the last call with a positive probability
Counted == {i \in DOMAIN last.data : ProbOf(i).ok /\ RLess(Zero, ProbOf(i).val)}

\* their probabilities, in the order of the data
CountedProbs ==
  LET IsPositive(x) == RLess(Zero, x) IN
  SelectSeq([i \in DOMAIN last.data |-> ProbOf(i).val], IsPositive)

\* sum over the counted points from i on of gradient[k] / prob
RECURSIVE QuotientSum(_, _)
QuotientSum(k, i) ==
  IF i > Len(last.data) THEN Zero
  ELSE IF i \notin Counted THEN QuotientSum(k, i + 1)
  ELSE RAdd(RMul(Program_gradient(defns0, expr, params, last.data[i]).val[k],
                 RInv(ProbOf(i).val)),
            QuotientSum(k, i + 1))

\* C30: both functions skip exactly the data points whose probability is not
\* positive and divide by the number of the others: the logarithms taken and
\* the probabilities divided by are those of the counted points, all
\* positive, the gradient is minus the sum of gradient / prob over them
\* divided by their number, and with no counted point both raise
\* ZeroDivisionError.
LearningSkipsNonPositive ==
  (last.op \in LearnOps /\ \A i \in DOMAIN last.data : ProbOf(i).ok)
  => /\ Counted = {} => (~last.res.ok /\ last.res.err = "ZeroDivisionError")
     /\ last.res.ok => last.res.val.n = Cardinality(Counted)
     /\ (last.op = "avg_negative_log_likelihood" /\ Counted # {})
        => (last.res.ok /\ last.res.val.logs = CountedProbs)
     /\ (last.op = "avg_negative_log_likelihood_gradient" /\ last.res.ok)
        => /\ last.res.val.divisors = CountedProbs
           /\ \A k \in Keys(params) :
                last.res.val.grad[k]
                  = RMul(RNeg(QuotientSum(k, 1)), <<1, Cardinality(Counted)>>)
     /\ last.res.err # LogDomain
     /\ (last.op = "avg_negative_log_likelihood" /\ last.res.ok)
        => \A i \in DOMAIN last.res.val.logs : RLess(Zero, last.res.val.logs[i])
     /\ (last.op = "avg_negative_log_likelihood_gradient" /\ last.res.ok)
        => \A i \in DOMAIN last.res.val.divisors :
             RLess(Zero, last.res.val.divisors[i])

LearningWitness ==
  /\ last.op = "avg_negative_log_likelihood_gradient"
  /\ last.res.ok
  /\ Len(last.data) = 2
  /\ Cardinality(Counted) = 1
  /\ last.res.val.grad["p"] # Zero

====
